---- MODULE Spec2Model ----
(***************************************************************************)
(* Car inventory: the cars / car_images tables of car_sales.db, the image  *)
(* directory, the two Qt table models that cache rows, and the write       *)
(* paths of the PySide6 application (gui.py), of the console application   *)
(* (main.py, managing_system.py, vehicle.py) and of the stand-alone store  *)
(* class (database.py).  Text is a sequence of one-character strings, so   *)
(* that str.strip, int(), float() and str() are computed, not assumed.     *)
(***************************************************************************)
EXTENDS Integers, Sequences, FiniteSets, TLC

(***************************************************************************)
(* Bounds of the model.                                                    *)
(***************************************************************************)
\* cap on sqlite_sequence of cars: the number of rows ever inserted
MaxId == 2
\* cap on sqlite_sequence of car_images
MaxImgId == 1
\* cap on the wall clock, in seconds since the first operation
MaxTime == 1
\* cap on the number of update operations in a run
MaxUpdates == 1

(***************************************************************************)
(* Program constants.                                                      *)
(***************************************************************************)
YearMin == 1886
YearMax == 2050
PriceSpinMax == 1000000000
EngineSpinMax == 100000
LiterSpinMax == 10000

\* gui.py:43-45; lists, the first entry is what a combo box falls back to
ENUM_TYPES ==
    << <<"S","e","d","a","n">>, <<"S","U","V">>,
       <<"H","a","t","c","h","b","a","c","k">>,
       <<"C","o","n","v","e","r","t","i","b","l","e">>,
       <<"C","o","u","p","e">>, <<"T","r","u","c","k">> , <<"V","a","n">> >>
ENUM_CONDITIONS ==
    << <<"N","e","w">>, <<"U","s","e","d">>,
       <<"C","e","r","t","i","f","i","e","d">> >>
ENUM_DRIVES ==
    << <<"F","W","D">>, <<"R","W","D">>, <<"A","W","D">>, <<"4","W","D">> >>

\* gui.py:52-64, column -> field
FIELD_MAP ==
    [c \in 1..11 |->
        << "make", "model", "year", "price", "color", "type", "condition",
           "drive_trains", "engine_power", "liter_capacity", "salesperson" >>[c]]
INT_FIELDS == {"year", "engine_power", "liter_capacity"}
FLOAT_FIELDS == {"price"}

\* the columns of table cars other than id, in the order of the INSERT
Columns ==
    << "make", "model", "year", "price", "color", "type", "condition",
       "drive_trains", "engine_power", "liter_capacity", "salesperson",
       "image_path" >>
ColumnSet == {Columns[i] : i \in 1..Len(Columns)}
TextColumns == {"make", "model", "color", "salesperson"}

(***************************************************************************)
(* Text.                                                                   *)
(***************************************************************************)
Range(s) == {s[i] : i \in 1..Len(s)}

\* SQL NULL and Python None in a text column: no character sequence equals it
Null == <<"NULL">>
Empty == <<>>

IsSpace(c) == c \in {" "}

RECURSIVE LStrip(_)
LStrip(s) == IF s # <<>> /\ IsSpace(Head(s)) THEN LStrip(Tail(s)) ELSE s

RECURSIVE RStrip(_)
RStrip(s) ==
    IF s # <<>> /\ IsSpace(s[Len(s)]) THEN RStrip(SubSeq(s, 1, Len(s) - 1)) ELSE s

\* str.strip()
Strip(s) == RStrip(LStrip(s))

Digits == <<"0", "1", "2", "3", "4", "5", "6", "7", "8", "9">>
DigitVal(c) == CHOOSE d \in 0..9 : Digits[d + 1] = c
IsDigit(c) == c \in Range(Digits)

RECURSIVE NatToStr(_)
NatToStr(n) ==
    IF n < 10 THEN <<Digits[n + 1]>>
    ELSE NatToStr(n \div 10) \o <<Digits[(n % 10) + 1]>>

\* str(n) of an int
IntToStr(n) == IF n < 0 THEN <<"-">> \o NatToStr(-n) ELSE NatToStr(n)

\* str(x) of a float holding a whole number: "20000.0"
FloatToStr(x) == IntToStr(x) \o <<".", "0">>

RECURSIVE DigitsVal(_, _)
DigitsVal(s, acc) ==
    IF s = <<>> THEN acc ELSE DigitsVal(Tail(s), 10 * acc + DigitVal(Head(s)))

AllDigits(s) == s # <<>> /\ \A i \in 1..Len(s) : IsDigit(s[i])
AllZeros(s) == \A i \in 1..Len(s) : s[i] = "0"

\* int(text): a record [ok, val]; ok = FALSE is ValueError.  int() itself
\* tolerates surrounding blanks and one sign.
ParseInt(text) ==
    LET t == Strip(text)
        neg == t # <<>> /\ Head(t) = "-"
        body == IF t # <<>> /\ Head(t) \in {"-", "+"} THEN Tail(t) ELSE t
    IN  IF AllDigits(body)
        THEN [ok |-> TRUE,
              val |-> IF neg THEN 0 - DigitsVal(body, 0) ELSE DigitsVal(body, 0)]
        ELSE [ok |-> FALSE, val |-> 0]

DotAt(s) == IF \E i \in 1..Len(s) : s[i] = "."
            THEN CHOOSE i \in 1..Len(s) : s[i] = "." /\ \A j \in 1..(i - 1) : s[j] # "."
            ELSE 0

\* float(text) for the decimal forms whose value is a whole number
\* ("20000", "20000.0", "-5.0"); anything else the model draws is ValueError.
ParseFloat(text) ==
    LET t == Strip(text)
        neg == t # <<>> /\ Head(t) = "-"
        body == IF t # <<>> /\ Head(t) \in {"-", "+"} THEN Tail(t) ELSE t
        d == DotAt(body)
        whole == IF d = 0 THEN body ELSE SubSeq(body, 1, d - 1)
        frac == IF d = 0 THEN <<>> ELSE SubSeq(body, d + 1, Len(body))
    IN  IF AllDigits(whole) /\ (frac = <<>> \/ (AllDigits(frac) /\ AllZeros(frac)))
        THEN [ok |-> TRUE,
              val |-> IF neg THEN 0 - DigitsVal(whole, 0) ELSE DigitsVal(whole, 0)]
        ELSE [ok |-> FALSE, val |-> 0]

\* Python truthiness of a text value: None and "" are false
Truthy(s) == s # Null /\ s # Empty

RECURSIVE LastDot(_)
LastDot(s) ==
    IF s = <<>> THEN 0
    ELSE IF s[Len(s)] = "." THEN Len(s)
    ELSE LastDot(SubSeq(s, 1, Len(s) - 1))

\* os.path.splitext(p)[1]
SplitExt(p) ==
    LET d == LastDot(p) IN IF d <= 1 THEN <<>> ELSE SubSeq(p, d, Len(p))

\* os.path.join("car_images", name)
ImgDir == <<"car_images/">>
JoinImgDir(name) == ImgDir \o name

(***************************************************************************)
(* State.                                                                  *)
(***************************************************************************)
VARIABLES
    cars,          \* table cars of car_sales.db: id -> row (the other columns)
    seq,           \* sqlite_sequence of cars (AUTOINCREMENT)
    car_images,    \* table car_images: id -> [car_id, path]
    img_seq,       \* sqlite_sequence of car_images
    files,         \* the files present in directory car_images
    now,           \* int(pd.Timestamp.now().timestamp())
    model_data,    \* MainWindow.model._data, the dashboard rows
    search_data,   \* MainWindow.model_search._data, the search-page rows
    current_role,  \* MainWindow.current_role
    last,          \* the operation that ran last, its input and its outcome
    created,       \* history: the ids the inserts assigned, in order
    deleted,       \* history: the ids of the rows a delete removed
    updates_done,  \* history: how many updates ran
    workbook,      \* the rows of the .xlsx file export_to_excel wrote last
    main_pc        \* main.main: at the menu, left by option 5, or ended by an exception

vars == << cars, seq, car_images, img_seq, files, now, model_data, search_data,
           current_role, last, created, deleted, updates_done, workbook,
           main_pc >>
storeVars == << cars, seq, car_images, img_seq >>

Max(a, b) == IF a >= b THEN a ELSE b

RECURSIVE MaxOf(_)
MaxOf(S) == IF S = {} THEN 0 ELSE LET x == CHOOSE y \in S : TRUE IN Max(x, MaxOf(S \ {x}))

RECURSIVE Ascending(_)
Ascending(S) ==
    IF S = {} THEN <<>>
    ELSE LET m == CHOOSE x \in S : \A y \in S : x <= y IN <<m>> \o Ascending(S \ {m})

\* a row as the INSERT statements take it: a value for each column
Row(make, model, year, price, color, type, condition, drive, engine, liter, sales, image) ==
    [make |-> make, model |-> model, year |-> year, price |-> price,
     color |-> color, type |-> type, condition |-> condition,
     drive_trains |-> drive, engine_power |-> engine, liter_capacity |-> liter,
     salesperson |-> sales, image_path |-> image]

(***************************************************************************)
(* The store: the SQL statements of gui.Database and database.Database.    *)
(***************************************************************************)
\* INTEGER PRIMARY KEY AUTOINCREMENT: one more than the largest rowid the
\* table ever held (sqlite_sequence keeps it across deletes)
RowidNextId(cs, sq) == MaxOf(DOMAIN cs) + 1
NextId(cs, sq) == Max(sq, MaxOf(DOMAIN cs)) + 1

\* INSERT INTO cars (make, ..., image_path) VALUES (?, ..., ?)
InsertCar(cs, sq, row) == (NextId(cs, sq) :> row) @@ cs

\* SELECT * FROM cars
FetchAllCars(cs) ==
    LET ids == Ascending(DOMAIN cs)
    IN  [k \in 1..Len(ids) |-> [id |-> ids[k], row |-> cs[ids[k]]]]

\* SELECT * FROM cars WHERE id = ? ; fetchone() is None when no row matches
None == [id |-> 0, row |-> <<>>]
FetchCarById(cs, car_id) ==
    IF car_id \in DOMAIN cs THEN [id |-> car_id, row |-> cs[car_id]] ELSE None

\* UPDATE cars SET k1 = ?, ... WHERE id = ?
UpdateEveryRow(cs, car_id, updates) ==
    [i \in DOMAIN cs |->
        [c \in ColumnSet |-> IF c \in DOMAIN updates THEN updates[c] ELSE cs[i][c]]]
UpdateCar(cs, car_id, updates) ==
    LET found == car_id \in DOMAIN cs
        moved == found /\ "id" \in DOMAIN updates
        target == IF moved THEN updates["id"] ELSE car_id
        ids == IF moved THEN (DOMAIN cs \ {car_id}) \cup {target} ELSE DOMAIN cs
    IN  [i \in ids |->
            IF found /\ i = target
            THEN [c \in ColumnSet |->
                    IF c \in DOMAIN updates THEN updates[c] ELSE cs[car_id][c]]
            ELSE cs[i]]

\* the UPDATE raises sqlite3.IntegrityError (UNIQUE constraint failed: cars.id)
\* when it sets id to the key of another row
UpdateRaises(cs, car_id, updates) ==
    /\ "id" \in DOMAIN updates
    /\ car_id \in DOMAIN cs
    /\ updates["id"] # car_id
    /\ updates["id"] \in DOMAIN cs

\* DELETE FROM cars WHERE id = ?
DeleteNothing(cs, car_id) == cs
DeleteCar(cs, car_id) == [i \in DOMAIN cs \ {car_id} |-> cs[i]]

\* INSERT INTO car_images (car_id, path) VALUES (?, ?)
AddImage(imgs, isq, car_id, path) ==
    ((Max(isq, MaxOf(DOMAIN imgs)) + 1) :> [car_id |-> car_id, path |-> path]) @@ imgs

\* DELETE FROM car_images WHERE id = ?
DeleteImage(imgs, img_id) == [i \in DOMAIN imgs \ {img_id} |-> imgs[i]]

\* SELECT id, path FROM car_images WHERE car_id = ?
FetchImages(imgs, car_id) == {i \in DOMAIN imgs : imgs[i].car_id = car_id}

(***************************************************************************)
(* What the model draws for the user's and the callers' inputs.            *)
(***************************************************************************)
Kia == <<"K", "i", "a">>
Rio == <<"R", "i", "o">>
Red == <<"R", "e", "d">>
Ann == <<"A", "n", "n">>
Bus == <<"B", "u", "s">>
Blank == <<" ">>
\* a picture on the user's disk, outside car_images
Pic == <<"a", ".", "p", "n", "g">>
UserFiles == {Pic}

Sedan == ENUM_TYPES[1]
New == ENUM_CONDITIONS[1]
Used == ENUM_CONDITIONS[2]
FWD == ENUM_DRIVES[1]

BaseRow == Row(Kia, Rio, 2020, 20000, Red, Sedan, New, FWD, 1600, 50, Ann, Empty)

Vary(base, field, values) == {[base EXCEPT ![field] = v] : v \in values}

\* contents of the add form when OK is pressed
FormChoices ==
    {BaseRow, [BaseRow EXCEPT !.image_path = Pic, !.price = 0]}
    \cup Vary(BaseRow, "make", {Blank \o Kia, Blank})
    \cup Vary(BaseRow, "salesperson", {Empty})
    \cup Vary(BaseRow, "year", {YearMin, YearMax})
    \cup Vary(BaseRow, "price", {0})
    \cup Vary(BaseRow, "image_path", {Pic})

\* tuples handed to insert_car
RawChoices ==
    {BaseRow}
    \cup Vary(BaseRow, "make", {Empty})
    \cup Vary(BaseRow, "year", {YearMin - 1, YearMax + 1})
    \cup Vary(BaseRow, "price", {0, 0 - 5})
    \cup Vary(BaseRow, "type", {Bus})

\* dicts handed to add_car
DictChoices ==
    Vary(BaseRow, "make", {Blank \o Kia}) \cup Vary(BaseRow, "type", {Bus \o Blank})

\* values typed at the prompts of the console
ConsoleChoices ==
    Vary(BaseRow, "year", {YearMin - 1}) \cup Vary(BaseRow, "make", {Blank})

(***************************************************************************)
(* CarFormDialog (gui.py).                                                 *)
(***************************************************************************)
\* the widgets of _build_ui hold nothing outside their ranges and item lists
FormDomain(f) ==
    /\ YearMin <= f.year /\ f.year <= YearMax
    /\ 0 <= f.price /\ f.price <= PriceSpinMax
    /\ f.type \in Range(ENUM_TYPES)
    /\ f.condition \in Range(ENUM_CONDITIONS)
    /\ f.drive_trains \in Range(ENUM_DRIVES)
    /\ 1 <= f.engine_power /\ f.engine_power <= EngineSpinMax
    /\ 1 <= f.liter_capacity /\ f.liter_capacity <= LiterSpinMax

\* get_data: [ok, data]; ok = FALSE is the ValueError it raises
GetDataUntrimmed(f) ==
    [ok |-> /\ YearMin <= f.year /\ f.year <= YearMax
            /\ ~(f.price <= 0 \/ f.engine_power <= 0 \/ f.liter_capacity <= 0)
            /\ f.make # Empty /\ f.model # Empty /\ f.color # Empty
            /\ f.salesperson # Empty,
     data |-> f]
GetData(f) ==
    LET make == Strip(f.make)
        model == Strip(f.model)
        color == Strip(f.color)
        sales == Strip(f.salesperson)
    IN  [ok |-> /\ YearMin <= f.year /\ f.year <= YearMax
                /\ ~(f.price <= 0 \/ f.engine_power <= 0 \/ f.liter_capacity <= 0)
                /\ make # Empty /\ model # Empty /\ color # Empty /\ sales # Empty,
         data |-> [f EXCEPT !.make = make, !.model = model, !.color = color,
                            !.salesperson = sales]]

\* os.path.exists
Exists(p, fs) == p \in UserFiles \/ p \in fs

\* f"{make}_{model}_{year}_{int(pd.Timestamp.now().timestamp())}{ext}" under car_images
StoredName(make, model, year, t, ext) ==
    JoinImgDir(make \o <<"_">> \o model \o <<"_">> \o IntToStr(year) \o <<"_">>
               \o IntToStr(t) \o ext)

\* How the try block that copies the picture ends: the copy is made; makedirs
\* raises; open raises (no file is made); the write raises (a file is left).
CopyOutcomes == {"copied", "mkdir_failed", "open_failed", "write_failed"}

\* the path the row gets (stored_img_path) after the try block
StoredPathAfter(initial, target, outcome) ==
    IF outcome = "mkdir_failed" THEN initial ELSE target
\* the files of car_images after the try block
FilesAfter(fs, target, outcome) ==
    IF outcome \in {"copied", "write_failed"} THEN fs \cup {target} ELSE fs

(***************************************************************************)
(* Search (gui.Database.fetch_cars_by_filters, MainWindow.perform_search). *)
(***************************************************************************)
UpperLetters == <<"A","B","C","D","E","F","G","H","I","J","K","L","M",
                  "N","O","P","Q","R","S","T","U","V","W","X","Y","Z">>
LowerLetters == <<"a","b","c","d","e","f","g","h","i","j","k","l","m",
                  "n","o","p","q","r","s","t","u","v","w","x","y","z">>
\* SQLite's LIKE folds the ASCII letters
Fold(c) ==
    IF c \in Range(UpperLetters)
    THEN LowerLetters[CHOOSE i \in 1..26 : UpperLetters[i] = c]
    ELSE c

\* text LIKE pattern: % matches any run of characters, _ any one character
RECURSIVE Like(_, _)
Like(pat, txt) ==
    IF pat = <<>> THEN txt = <<>>
    ELSE IF Head(pat) = "%"
         THEN \E k \in 0..Len(txt) : Like(Tail(pat), SubSeq(txt, k + 1, Len(txt)))
         ELSE /\ txt # <<>>
              /\ (Head(pat) = "_" \/ Fold(Head(pat)) = Fold(Head(txt)))
              /\ Like(Tail(pat), Tail(txt))

\* a criterion that is not given is 0 (year, price: "value() or None") or Empty
NoCriteria ==
    [make |-> Empty, year_min |-> 0, year_max |-> 0, price_min |-> 0,
     price_max |-> 0, condition |-> <<"A", "n", "y">>, drive_trains |-> <<"A", "n", "y">>]

MatchesAnyCondition(r, q) ==
    /\ (q.make # Empty => r.make # Null /\ Like(<<"%">> \o q.make \o <<"%">>, r.make))
    /\ (q.year_min # 0 => r.year >= q.year_min)
    /\ (q.year_max # 0 => r.year <= q.year_max)
    /\ (q.price_min # 0 => r.price >= q.price_min)
    /\ (q.price_max # 0 => r.price <= q.price_max)
    /\ (q.drive_trains # Empty /\ q.drive_trains # <<"A", "n", "y">>
            => r.drive_trains = q.drive_trains)
MatchesExclusive(r, q) ==
    /\ (q.make # Empty => r.make # Null /\ Like(<<"%">> \o q.make \o <<"%">>, r.make))
    /\ (q.year_min # 0 => r.year > q.year_min)
    /\ (q.year_max # 0 => r.year < q.year_max)
    /\ (q.price_min # 0 => r.price > q.price_min)
    /\ (q.price_max # 0 => r.price < q.price_max)
    /\ (q.condition # Empty /\ q.condition # <<"A", "n", "y">>
            => r.condition = q.condition)
    /\ (q.drive_trains # Empty /\ q.drive_trains # <<"A", "n", "y">>
            => r.drive_trains = q.drive_trains)
Matches(r, q) ==
    /\ (q.make # Empty => r.make # Null /\ Like(<<"%">> \o q.make \o <<"%">>, r.make))
    /\ (q.year_min # 0 => r.year >= q.year_min)
    /\ (q.year_max # 0 => r.year <= q.year_max)
    /\ (q.price_min # 0 => r.price >= q.price_min)
    /\ (q.price_max # 0 => r.price <= q.price_max)
    /\ (q.condition # Empty /\ q.condition # <<"A", "n", "y">>
            => r.condition = q.condition)
    /\ (q.drive_trains # Empty /\ q.drive_trains # <<"A", "n", "y">>
            => r.drive_trains = q.drive_trains)

FetchCarsByFilters(cs, q) ==
    LET ids == Ascending({i \in DOMAIN cs : Matches(cs[i], q)})
    IN  [k \in 1..Len(ids) |-> [id |-> ids[k], row |-> cs[ids[k]]]]

\* what the search page holds when Search is pressed
SearchChoices ==
    { NoCriteria,
      [NoCriteria EXCEPT !.condition = Used],
      [NoCriteria EXCEPT !.drive_trains = FWD],
      [NoCriteria EXCEPT !.year_min = 2021],
      [NoCriteria EXCEPT !.year_max = 2020],
      [NoCriteria EXCEPT !.price_min = 50000],
      [NoCriteria EXCEPT !.price_max = 20000],
      [NoCriteria EXCEPT !.year_min = 2020, !.year_max = 2020, !.condition = Used],
      [NoCriteria EXCEPT !.make = <<" ", "k", "I">>],
      [NoCriteria EXCEPT !.make = <<"m">>, !.condition = Used],
      [NoCriteria EXCEPT !.make = <<"_">>],
      [NoCriteria EXCEPT !.make = <<"%">>, !.price_min = 50000] }

(***************************************************************************)
(* Operations.  Each sets last to what ran and how it ended: op and entry  *)
(* name the operation and the code path, id the row it addressed (the new  *)
(* id of a create), existed whether that row was there before, input the   *)
(* values supplied, result the outcome reported, copy how the picture copy *)
(* ended.                                                                  *)
(***************************************************************************)
Op(op, entry, id, existed, input, result, copy) ==
    [op |-> op, entry |-> entry, id |-> id, existed |-> existed, input |-> input,
     result |-> result, copy |-> copy]

\* the INSERT and what it leaves in sqlite_sequence
Inserted(row) ==
    /\ Len(created) < MaxId
    /\ cars' = InsertCar(cars, seq, row)
    /\ seq' = Max(seq, NextId(cars, seq))
    /\ created' = Append(created, NextId(cars, seq))

\* MainWindow.add_car_dialog, the dialog accepted with contents f
AddCarDialogCopyFirst(forms) ==
    \E f \in forms, outcome \in CopyOutcomes :
        /\ FormDomain(f)
        /\ LET r == GetData(f)
               d == r.data
               copying == Truthy(d.image_path) /\ Exists(d.image_path, files)
               target == StoredName(d.make, d.model, d.year, now, SplitExt(d.image_path))
               stored == IF copying THEN StoredPathAfter(Empty, target, outcome) ELSE Empty
           IN  /\ (~copying => outcome = "copied")
               /\ files' = IF copying THEN FilesAfter(files, target, outcome) ELSE files
               /\ IF ~r.ok
                  THEN /\ last' = Op("create", "form", 0, FALSE, f, "ValidationError",
                                     "none")
                       /\ UNCHANGED << cars, seq, car_images, img_seq, now, model_data,
                                       search_data, current_role, created, deleted,
                                       updates_done, workbook, main_pc >>
                  ELSE /\ Inserted([d EXCEPT !.image_path = stored])
                       /\ model_data' = FetchAllCars(cars')
                       /\ last' = Op("create", "form", NextId(cars, seq), FALSE, f, "ok",
                                     IF ~copying THEN "none"
                                     ELSE IF outcome = "copied" THEN "copied" ELSE "warned")
                       /\ UNCHANGED << car_images, img_seq, now, search_data,
                                       current_role, deleted, updates_done, workbook,
                                       main_pc >>
AddCarDialog(forms) ==
    \E f \in forms, outcome \in CopyOutcomes :
        /\ FormDomain(f)
        /\ LET r == GetData(f)
               d == r.data
               copying == Truthy(d.image_path) /\ Exists(d.image_path, files)
               target == StoredName(d.make, d.model, d.year, now, SplitExt(d.image_path))
               stored == IF copying THEN StoredPathAfter(Empty, target, outcome) ELSE Empty
           IN  IF ~r.ok
               THEN /\ outcome = "copied"
                    /\ last' = Op("create", "form", 0, FALSE, f, "ValidationError", "none")
                    /\ UNCHANGED << cars, seq, car_images, img_seq, files, now,
                                    model_data, search_data, current_role, created,
                                    deleted, updates_done, workbook, main_pc >>
               ELSE /\ (~copying => outcome = "copied")
                    /\ Inserted([d EXCEPT !.image_path = stored])
                    /\ files' = IF copying THEN FilesAfter(files, target, outcome) ELSE files
                    /\ model_data' = FetchAllCars(cars')
                    /\ last' = Op("create", "form", NextId(cars, seq), FALSE, f, "ok",
                                  IF ~copying THEN "none"
                                  ELSE IF outcome = "copied" THEN "copied" ELSE "warned")
                    /\ UNCHANGED << car_images, img_seq, now, search_data, current_role,
                                    deleted, updates_done, workbook, main_pc >>

\* gui.Database.insert_car, called with a tuple
StoreInsertCar(tuples) ==
    \E t \in tuples :
        /\ Inserted(t)
        /\ last' = Op("create", "store", NextId(cars, seq), FALSE, t, "ok", "none")
        /\ UNCHANGED << car_images, img_seq, files, now, model_data, search_data,
                        current_role, deleted, updates_done, workbook, main_pc >>

\* database.Database.add_car, called with a dict
DbAddCar(dicts) ==
    \E t \in dicts :
        /\ Inserted([t EXCEPT !.make = Strip(t.make), !.model = Strip(t.model),
                              !.color = Strip(t.color), !.type = Strip(t.type),
                              !.condition = Strip(t.condition),
                              !.drive_trains = Strip(t.drive_trains),
                              !.salesperson = Strip(t.salesperson)])
        /\ last' = Op("create", "db_add", NextId(cars, seq), FALSE, t, "ok", "none")
        /\ UNCHANGED << car_images, img_seq, files, now, model_data, search_data,
                        current_role, deleted, updates_done, workbook, main_pc >>

\* database.Database.insert_car, called with a tuple
DbInsertCar(tuples) ==
    \E t \in tuples :
        /\ Inserted(t)
        /\ last' = Op("create", "db_insert", NextId(cars, seq), FALSE, t, "ok", "none")
        /\ UNCHANGED << car_images, img_seq, files, now, model_data, search_data,
                        current_role, deleted, updates_done, workbook, main_pc >>

\* what the user types at the prompts of Car.input_full_info for the values t
Typed(t) ==
    [t EXCEPT !.year = IntToStr(t.year), !.price = IntToStr(t.price),
              !.engine_power = IntToStr(t.engine_power),
              !.liter_capacity = IntToStr(t.liter_capacity)]

\* Car.input_full_info and get_full_info: [ok, data]; ok = FALSE is the
\* ValueError of int() or float(), which nothing catches
InputFullInfo(typed) ==
    LET year == ParseInt(typed.year)
        price == ParseFloat(typed.price)
        engine == ParseInt(typed.engine_power)
        liter == ParseInt(typed.liter_capacity)
    IN  [ok |-> year.ok /\ price.ok /\ engine.ok /\ liter.ok,
         data |-> [typed EXCEPT !.year = year.val, !.price = price.val,
                                !.engine_power = engine.val,
                                !.liter_capacity = liter.val]]

\* ManagingSystem.add_car: the INSERT names eleven columns, image_path stays NULL
CliAddCar(typings) ==
    \E typed \in typings :
        LET r == InputFullInfo(typed)
        IN  IF ~r.ok
            THEN /\ last' = Op("create", "cli", 0, FALSE, typed, "ValueError", "none")
                 /\ UNCHANGED << cars, seq, car_images, img_seq, files, now,
                                 model_data, search_data, current_role, created,
                                 deleted, updates_done, workbook, main_pc >>
            ELSE /\ Inserted([r.data EXCEPT !.image_path = Null])
                 /\ last' = Op("create", "cli", NextId(cars, seq), FALSE, r.data, "ok",
                               "none")
                 /\ UNCHANGED << car_images, img_seq, files, now, model_data,
                                 search_data, current_role, deleted, updates_done, workbook,
                                 main_pc >>

\* f"car{car_id}_{ts}{ext}" under car_images
GalleryName(car_id, t, ext) ==
    JoinImgDir(<<"c", "a", "r">> \o IntToStr(car_id) \o <<"_">> \o IntToStr(t) \o ext)

\* MainWindow.open_gallery on the selected row, then GalleryDialog.add_images
\* with one picture chosen; the dialog is closed without "set as main"
GalleryAddImages(outcomes) ==
    \E k \in 1..Len(model_data), p \in UserFiles,
       outcome \in outcomes \cap (CopyOutcomes \ {"mkdir_failed"}) :
        LET car_id == model_data[k].id
            dst == GalleryName(car_id, now, SplitExt(p))
        IN  /\ Cardinality(DOMAIN car_images) < MaxImgId
            /\ files' = FilesAfter(files, dst, outcome)
            /\ IF outcome = "copied"
               THEN /\ car_images' = AddImage(car_images, img_seq, car_id, dst)
                    /\ img_seq' = Max(img_seq, MaxOf(DOMAIN car_images)) + 1
               ELSE UNCHANGED << car_images, img_seq, workbook, main_pc >>
            /\ last' = Op("add_image", "gallery", car_id, car_id \in DOMAIN cars,
                          <<>>, "ok", IF outcome = "copied" THEN "copied" ELSE "warned")
            /\ UNCHANGED << cars, seq, now, model_data, search_data, current_role,
                            created, deleted, updates_done, workbook, main_pc >>

\* one turn of the loop of add_images: picture p copied at second t
AddOneImage(st, car_id, p, t, outcome) ==
    LET dst == GalleryName(car_id, t, SplitExt(p))
    IN  [files |-> FilesAfter(st.files, dst, outcome),
         imgs |-> IF outcome = "copied" THEN AddImage(st.imgs, st.isq, car_id, dst)
                  ELSE st.imgs,
         isq |-> IF outcome = "copied" THEN Max(st.isq, MaxOf(DOMAIN st.imgs)) + 1
                 ELSE st.isq,
         warned |-> st.warned \/ outcome # "copied"]

\* a second picture of the same kind on the user's disk
Pic2 == <<"b", ".", "p", "n", "g">>

\* GalleryDialog.add_images with two pictures chosen in the file dialog; the
\* second is copied in the same second as the first or in the next
GalleryAddTwo(outcomes) ==
    \E k \in 1..Len(model_data), o1 \in outcomes \cap (CopyOutcomes \ {"mkdir_failed"}),
       o2 \in outcomes \cap (CopyOutcomes \ {"mkdir_failed"}),
       t2 \in {now, now + 1} \cap 0..MaxTime :
        LET car_id == model_data[k].id
            st0 == [files |-> files, imgs |-> car_images, isq |-> img_seq, warned |-> FALSE]
            st1 == AddOneImage(st0, car_id, Pic, now, o1)
            st2 == AddOneImage(st1, car_id, Pic2, t2, o2)
        IN  /\ Cardinality(DOMAIN car_images) < MaxImgId
            /\ files' = st2.files
            /\ car_images' = st2.imgs
            /\ img_seq' = st2.isq
            /\ now' = t2
            /\ last' = Op("add_image", "gallery", car_id, car_id \in DOMAIN cars,
                          <<Pic, Pic2>>, "ok", IF st2.warned THEN "warned" ELSE "copied")
            /\ UNCHANGED << cars, seq, model_data, search_data, current_role,
                            created, deleted, updates_done, workbook, main_pc >>

\* gui.Database.add_image(car_id, path)
StoreAddImage(ids, paths) ==
    \E car_id \in ids, path \in paths :
        /\ Cardinality(DOMAIN car_images) < MaxImgId
        /\ car_images' = AddImage(car_images, img_seq, car_id, path)
        /\ img_seq' = Max(img_seq, MaxOf(DOMAIN car_images)) + 1
        /\ last' = Op("add_image", "store", car_id, car_id \in DOMAIN cars, path, "ok",
                      "none")
        /\ UNCHANGED << cars, seq, files, now, model_data, search_data, current_role,
                        created, deleted, updates_done, workbook, main_pc >>

\* gui.Database.delete_image(img_id)
StoreDeleteImage(imgIds) ==
    \E img_id \in imgIds :
        /\ car_images' = DeleteImage(car_images, img_id)
        /\ last' = Op("delete_image", "store", img_id, img_id \in DOMAIN car_images,
                      <<>>, "ok", "none")
        /\ UNCHANGED << cars, seq, img_seq, files, now, model_data, search_data,
                        current_role, created, deleted, updates_done, workbook, main_pc >>

\* the F5 shortcut: CarTableModel.load_data
Refresh ==
    /\ model_data' = FetchAllCars(cars)
    /\ last' = Op("refresh", "gui", 0, FALSE, <<>>, "ok", "none")
    /\ UNCHANGED << cars, seq, car_images, img_seq, files, now, search_data,
                    current_role, created, deleted, updates_done, workbook, main_pc >>

\* MainWindow.perform_search
PerformSearch(criteria) ==
    \E q \in criteria :
        /\ search_data' = FetchCarsByFilters(cars, [q EXCEPT !.make = Strip(q.make)])
        /\ last' = Op("search", "gui", 0, FALSE, q, "ok", "none")
        /\ UNCHANGED << cars, seq, car_images, img_seq, files, now, model_data,
                        current_role, created, deleted, updates_done, workbook, main_pc >>

\* a second passes
Tick ==
    /\ now < MaxTime
    /\ now' = now + 1
    /\ UNCHANGED << cars, seq, car_images, img_seq, files, model_data, search_data,
                    current_role, last, created, deleted, updates_done, workbook, main_pc >>

(***************************************************************************)
(* Sorting (CarTableModel.sort).                                           *)
(***************************************************************************)
NUMERIC_COLS == {0, 3, 4, 9, 10}

(***************************************************************************)
(* A cell of a numeric column holds a number, or text that SQLite kept as  *)
(* text because it is not a numeric literal, or NULL.  A cell that is not  *)
(* a number is written here as a number below TextBase: TextBase - k is    *)
(* the k-th text of CellTexts.  No number the model stores is that small.  *)
(***************************************************************************)
NaN == <<"n", "a", "n">>
CellTexts == <<NaN, <<"x">>, Null>>
TextBase == 0 - 2 * PriceSpinMax
CellOfText(t) == TextBase - (CHOOSE k \in 1..Len(CellTexts) : CellTexts[k] = t)
\* isinstance(v, str) or v is None
IsText(v) == v < TextBase
TextOfCell(v) == CellTexts[TextBase - v]

\* the cell of column col of a table row
Cell(rec, col) == IF col = 0 THEN rec.id ELSE rec.row[FIELD_MAP[col]]

\* the characters of lowered text in code point order
CodeOrder ==
    <<" ", "%", ".", "0", "1", "2", "3", "4", "5", "6", "7", "8", "9", "_">>
    \o LowerLetters
Code(c) == IF \E i \in 1..Len(CodeOrder) : CodeOrder[i] = c
           THEN CHOOSE i \in 1..Len(CodeOrder) : CodeOrder[i] = c
           ELSE 0

\* a < b for two str
RECURSIVE TextLess(_, _)
TextLess(a, b) ==
    IF b = <<>> THEN FALSE
    ELSE IF a = <<>> THEN TRUE
    ELSE IF Head(a) = Head(b) THEN TextLess(Tail(a), Tail(b))
    ELSE Code(Head(a)) < Code(Head(b))

\* key_fn: float(v), float("inf") when float raises, str(v).lower() for a
\* text column
KeyFn(rec, column) ==
    LET v == Cell(rec, column)
    IN  IF column \in NUMERIC_COLS
        THEN IF ~IsText(v) THEN [kind |-> "number", val |-> v, text |-> Empty]
             ELSE LET t == TextOfCell(v)
                      low == IF t = Null THEN Null
                             ELSE [k \in 1..Len(Strip(t)) |-> Fold(Strip(t)[k])]
                  IN  IF t # Null /\ low = NaN
                      THEN [kind |-> "nan", val |-> 0, text |-> Empty]
                      ELSE IF t # Null /\ ParseFloat(t).ok
                      THEN [kind |-> "number", val |-> ParseFloat(t).val, text |-> Empty]
                      ELSE [kind |-> "inf", val |-> 0, text |-> Empty]
        ELSE [kind |-> "text", val |-> 0,
              text |-> IF v = Null THEN <<"n", "o", "n", "e">>
                       ELSE [k \in 1..Len(v) |-> Fold(v[k])]]

\* a < b for two keys of one column; every comparison with a NaN is False
KeyLess(a, b) ==
    IF a.kind = "text" THEN TextLess(a.text, b.text)
    ELSE IF a.kind = "nan" \/ b.kind = "nan" THEN FALSE
    ELSE IF a.kind = "inf" THEN FALSE
    ELSE IF b.kind = "inf" THEN TRUE
    ELSE a.val < b.val

Reverse(s) == [k \in 1..Len(s) |-> s[Len(s) + 1 - k]]

\* count_run of list.sort: the end of the run that starts the list, a run
\* being strictly descending (desc) or not descending anywhere
RECURSIVE RunEnd(_, _, _)
RunEnd(ks, i, desc) ==
    IF i > Len(ks) THEN i - 1
    ELSE IF KeyLess(ks[i].key, ks[i - 1].key) = desc THEN RunEnd(ks, i + 1, desc)
    ELSE i - 1

\* the place binarysort finds for pivot among ks[l .. r-1]
RECURSIVE Place(_, _, _, _)
Place(ks, pivot, l, r) ==
    IF l >= r THEN l
    ELSE LET p == l + ((r - l) \div 2)
         IN  IF KeyLess(pivot.key, ks[p].key) THEN Place(ks, pivot, l, p)
             ELSE Place(ks, pivot, p + 1, r)

\* binarysort of list.sort from position start on
RECURSIVE BinarySort(_, _)
BinarySort(ks, start) ==
    IF start > Len(ks) THEN ks
    ELSE LET pivot == ks[start]
             l == Place(ks, pivot, 1, start)
         IN  BinarySort(SubSeq(ks, 1, l - 1) \o <<pivot>> \o SubSeq(ks, l, start - 1)
                            \o SubSeq(ks, start + 1, Len(ks)),
                        start + 1)

\* list.sort / sorted for a list shorter than 64: the first run is made
\* ascending and the rest is inserted into it; reverse turns the list over
\* before and after
SortItems(items, reverse) ==
    LET ks == IF reverse THEN Reverse(items) ELSE items
        desc == Len(ks) >= 2 /\ KeyLess(ks[2].key, ks[1].key)
        n == IF Len(ks) < 2 THEN Len(ks) ELSE RunEnd(ks, 3, desc)
        run == IF desc THEN Reverse(SubSeq(ks, 1, n)) \o SubSeq(ks, n + 1, Len(ks))
               ELSE ks
        sorted == BinarySort(run, n + 1)
        out == IF reverse THEN Reverse(sorted) ELSE sorted
    IN  [k \in 1..Len(out) |-> out[k].rec]

\* self._data.sort(key=key_fn, reverse=reverse)
ListSort(data, column, reverse) ==
    SortItems([k \in 1..Len(data) |-> [key |-> KeyFn(data[k], column), rec |-> data[k]]],
              reverse)

\* a click on the header of column col of the search table: CarTableModel.sort
SortSearch(cols, orders) ==
    \E column \in cols \cap 0..11, descending \in orders \cap BOOLEAN :
        /\ search_data' = ListSort(search_data, column, descending)
        /\ last' = Op("sort", "gui", 0, FALSE,
                      [column |-> column, descending |-> descending], "ok", "none")
        /\ UNCHANGED << cars, seq, car_images, img_seq, files, now, model_data,
                        current_role, created, deleted, updates_done, workbook, main_pc >>

(***************************************************************************)
(* Aggregates (MainWindow._update_status, MainWindow._refresh_analytics).  *)
(*                                                                         *)
(* A quotient a / b is kept as the fraction in lowest terms, so that two   *)
(* quotients are equal exactly when their values are; the rounding of the  *)
(* float division itself is left out.                                      *)
(***************************************************************************)
RECURSIVE Gcd(_, _)
Gcd(a, b) == IF b = 0 THEN a ELSE Gcd(b, a % b)

Quotient(a, b) ==
    LET g == Gcd(IF a < 0 THEN 0 - a ELSE a, b)
    IN  [num |-> a \div g, den |-> b \div g]

\* 0.0
Zero == [num |-> 0, den |-> 1]

\* sum(prices)
RECURSIVE SumSeq(_)
SumSeq(s) == IF s = <<>> THEN 0 ELSE Head(s) + SumSeq(Tail(s))

\* sorted(prices)
Sorted(prices) ==
    SortItems([k \in 1..Len(prices) |->
                  [key |-> [kind |-> "number", val |-> prices[k], text |-> Empty],
                   rec |-> prices[k]]],
              FALSE)

\* the median of _update_status
Median(prices) ==
    IF prices = <<>> THEN Zero
    ELSE LET sp == Sorted(prices)
             mid == Len(sp) \div 2
         IN  IF Len(sp) % 2 = 1 THEN Quotient(sp[mid + 1], 1)
             ELSE Quotient(sp[mid] + sp[mid + 1], 2)

\* _update_status over the rows the proxy shows (all rows of the model while
\* the quick filter is empty): only the prices that are int or float count
StatusOf(data) ==
    LET all == [k \in 1..Len(data) |-> Cell(data[k], 4)]
        prices == SelectSeq(all, LAMBDA v : ~IsText(v))
    IN  [raised |-> FALSE,
         rows |-> Len(data),
         total |-> Len(data),
         avg |-> IF prices # <<>> THEN Quotient(SumSeq(prices), Len(prices)) ELSE Zero,
         med |-> Median(prices)]

\* Counter(makes)
CountByMake(data) ==
    [m \in {data[k].row.make : k \in 1..Len(data)} |->
        Cardinality({k \in 1..Len(data) : data[k].row.make = m})]

\* _refresh_analytics: sum() raises TypeError on a price that is a str or None
AnalyticsOf(cs) ==
    LET data == FetchAllCars(cs)
        total == Len(data)
        all == [k \in 1..total |-> Cell(data[k], 4)]
    IN  IF \E k \in 1..total : IsText(all[k])
        THEN [raised |-> TRUE, total |-> total, avg |-> Zero, counts |-> <<>>]
        ELSE [raised |-> FALSE,
              total |-> total,
              avg |-> IF total # 0 THEN Quotient(SumSeq(all), total) ELSE Zero,
              counts |-> CountByMake(data)]

\* the F5 shortcut: CarTableModel.load_data, then _update_status
RefreshStatus ==
    /\ model_data' = FetchAllCars(cars)
    /\ last' = Op("status", "gui", 0, FALSE, <<>>, StatusOf(model_data'), "none")
    /\ UNCHANGED << cars, seq, car_images, img_seq, files, now, search_data,
                    current_role, created, deleted, updates_done, workbook, main_pc >>

\* the Analytics button: _refresh_analytics
ShowAnalytics ==
    /\ last' = Op("analytics", "gui", 0, FALSE, <<>>, AnalyticsOf(cars), "none")
    /\ UNCHANGED << cars, seq, car_images, img_seq, files, now, model_data,
                    search_data, current_role, created, deleted, updates_done, workbook,
                    main_pc >>

(***************************************************************************)
(* Updates.                                                                *)
(***************************************************************************)
\* CarTableModel.setData, "parse and validate": [ok, val]; ok = FALSE is
\* "return False"
SetDataParse(field, value) ==
    LET text == Strip(value)
    IN  IF field \in INT_FIELDS
        THEN LET p == ParseInt(text)
             IN  [ok |-> p.ok /\ ~(field = "year"
                                   /\ ~(YearMin <= p.val /\ p.val <= YearMax)),
                  val |-> p.val]
        ELSE IF field \in FLOAT_FIELDS
        THEN LET p == ParseFloat(text)
             IN  [ok |-> p.ok /\ ~(p.val <= 0), val |-> p.val]
        ELSE [ok |-> /\ ~(field = "type" /\ text \notin Range(ENUM_TYPES))
                     /\ ~(field = "condition" /\ text \notin Range(ENUM_CONDITIONS))
                     /\ ~(field = "drive_trains" /\ text \notin Range(ENUM_DRIVES))
                     /\ ~(field \in {"make", "model", "color", "salesperson"}
                          /\ text = Empty),
              val |-> text]

\* the row of a table model with one column replaced
WithCell(data, k, field, val) ==
    [data EXCEPT ![k] = [id |-> @.id, row |-> [@.row EXCEPT ![field] = val]]]

BMW == <<"B", "M", "W">>
\* what InlineDelegate.setModelData hands to setData: str() of a spin box
\* value inside the range createEditor set, an item of a combo box, or the
\* text of a line edit
DelegateChoices(col) ==
    CASE col = 3 -> {IntToStr(YearMax)}
      [] col = 4 -> {FloatToStr(0), FloatToStr(50000)}
      [] col = 9 -> {IntToStr(1)}
      [] col = 10 -> {IntToStr(LiterSpinMax)}
      [] col = 6 -> {ENUM_TYPES[2]}
      [] col = 7 -> {ENUM_CONDITIONS[2]}
      [] col = 8 -> {ENUM_DRIVES[3]}
      [] col = 1 -> {Empty, BMW \o Blank}
      [] OTHER -> {Blank}

\* an inline edit of cell (k, col) of the dashboard table: setData of
\* MainWindow.model
InlineEditDashboard(cols) ==
    \E k \in 1..Len(model_data), col \in cols \cap DOMAIN FIELD_MAP :
        \E value \in DelegateChoices(col) :
            LET car_id == model_data[k].id
                field == FIELD_MAP[col]
                r == SetDataParse(field, value)
            IN  IF ~r.ok
                THEN /\ last' = Op("update", "inline", car_id, car_id \in DOMAIN cars,
                                   (field :> r.val), "rejected", "none")
                     /\ UNCHANGED << cars, seq, car_images, img_seq, files, now,
                                     model_data, search_data, current_role, created,
                                     deleted, updates_done, workbook, main_pc >>
                ELSE /\ updates_done < MaxUpdates
                     /\ updates_done' = updates_done + 1
                     /\ cars' = UpdateCar(cars, car_id, (field :> r.val))
                     /\ model_data' = WithCell(model_data, k, field, r.val)
                     /\ last' = Op("update", "inline", car_id, car_id \in DOMAIN cars,
                                   (field :> r.val), "ok", "none")
                     /\ UNCHANGED << seq, car_images, img_seq, files, now, search_data,
                                     current_role, created, deleted, workbook, main_pc >>

\* an inline edit of cell (k, col) of the search table: setData of
\* MainWindow.model_search
InlineEditSearch(cols) ==
    \E k \in 1..Len(search_data), col \in cols \cap DOMAIN FIELD_MAP :
        \E value \in DelegateChoices(col) :
            LET car_id == search_data[k].id
                field == FIELD_MAP[col]
                r == SetDataParse(field, value)
            IN  IF ~r.ok
                THEN /\ last' = Op("update", "inline_search", car_id,
                                   car_id \in DOMAIN cars, (field :> r.val), "rejected",
                                   "none")
                     /\ UNCHANGED << cars, seq, car_images, img_seq, files, now,
                                     model_data, search_data, current_role, created,
                                     deleted, updates_done, workbook, main_pc >>
                ELSE /\ updates_done < MaxUpdates
                     /\ updates_done' = updates_done + 1
                     /\ cars' = UpdateCar(cars, car_id, (field :> r.val))
                     /\ search_data' = WithCell(search_data, k, field, r.val)
                     /\ last' = Op("update", "inline_search", car_id,
                                   car_id \in DOMAIN cars, (field :> r.val), "ok", "none")
                     /\ UNCHANGED << seq, car_images, img_seq, files, now, model_data,
                                     current_role, created, deleted, workbook, main_pc >>

\* QSpinBox.setValue, QDoubleSpinBox.setValue: the value is brought into range
Clamp(v, lo, hi) == IF v < lo THEN lo ELSE IF v > hi THEN hi ELSE v
\* findText, setCurrentIndex(idx if idx >= 0 else 0), currentText
ComboText(items, text) == IF text \in Range(items) THEN text ELSE items[1]

\* CarFormDialog.__init__ with car, _fill_from_car: the contents the edit form
\* opens with
FillFromCar(c) ==
    Row(c.make, c.model, Clamp(c.year, YearMin, YearMax),
        Clamp(c.price, 0, PriceSpinMax), c.color, ComboText(ENUM_TYPES, c.type),
        ComboText(ENUM_CONDITIONS, c.condition), ComboText(ENUM_DRIVES, c.drive_trains),
        Clamp(c.engine_power, 1, EngineSpinMax), Clamp(c.liter_capacity, 1, LiterSpinMax),
        c.salesperson, c.image_path)

\* f with the widgets named in ch retyped
Retyped(f, ch) == [c \in ColumnSet |-> IF c \in DOMAIN ch THEN ch[c] ELSE f[c]]

\* what the user retypes in the edit form before pressing OK
EditChoices ==
    { <<>>, ("price" :> 50000), ("price" :> 0), ("make" :> Blank),
      ("salesperson" :> BMW), ("image_path" :> Pic) }

\* MainWindow.edit_selected_car, the dialog accepted
EditSelectedCar(changes) ==
    \E k \in 1..Len(model_data), ch \in changes,
       outcome \in CopyOutcomes \cup {"remove_failed"} :
        LET car == model_data[k]
            f == Retyped(FillFromCar(car.row), ch)
            r == GetData(f)
            d == r.data
            old == car.row.image_path
            stored0 == IF Truthy(old) THEN old ELSE Empty
            copying == /\ Truthy(d.image_path) /\ d.image_path # stored0
                       /\ Exists(d.image_path, files)
            target == StoredName(d.make, d.model, d.year, now, SplitExt(d.image_path))
            written == FilesAfter(files, target, outcome) \cup
                           (IF outcome = "remove_failed" THEN {target} ELSE {})
            removing == outcome = "copied" /\ Truthy(old) /\ Exists(old, written)
            stored == IF copying THEN StoredPathAfter(stored0, target, outcome)
                      ELSE stored0
            updates == [d EXCEPT !.image_path = stored]
        IN  /\ FormDomain(f)
            /\ IF ~r.ok
               THEN /\ outcome = "copied"
                    /\ last' = Op("update", "edit_form", car.id, car.id \in DOMAIN cars,
                                  f, "ValidationError", "none")
                    /\ UNCHANGED << cars, seq, car_images, img_seq, files, now,
                                    model_data, search_data, current_role, created,
                                    deleted, updates_done, workbook, main_pc >>
               ELSE /\ (~copying => outcome = "copied")
                    /\ (outcome = "remove_failed" => Truthy(old) /\ Exists(old, written))
                    /\ updates_done < MaxUpdates
                    /\ updates_done' = updates_done + 1
                    /\ files' = IF ~copying THEN files
                                ELSE IF removing THEN written \ {old} ELSE written
                    /\ cars' = UpdateCar(cars, car.id, updates)
                    /\ model_data' = FetchAllCars(cars')
                    /\ last' = Op("update", "edit_form", car.id, car.id \in DOMAIN cars,
                                  updates, "ok",
                                  IF ~copying THEN "none"
                                  ELSE IF outcome = "copied" THEN "copied" ELSE "warned")
                    /\ UNCHANGED << seq, car_images, img_seq, now, search_data,
                                    current_role, created, deleted, workbook, main_pc >>

\* CarFormDialog.__init__ with prefill, _apply_prefill: the contents the
\* duplicate form opens with
ApplyPrefill(c) == [FillFromCar(c) EXCEPT !.image_path = Empty]

\* MainWindow.duplicate_selected_car, the dialog accepted
DuplicateSelectedCarCopyFatal(changes) ==
    \E k \in 1..Len(model_data), ch \in changes, outcome \in CopyOutcomes :
        LET f == Retyped(ApplyPrefill(model_data[k].row), ch)
            r == GetData(f)
            d == r.data
            copying == Truthy(d.image_path) /\ Exists(d.image_path, files)
            target == StoredName(d.make, d.model, d.year, now, SplitExt(d.image_path))
        IN  /\ FormDomain(f)
            /\ (~copying => outcome = "copied")
            /\ IF ~r.ok \/ outcome # "copied"
               THEN /\ files' = IF r.ok THEN FilesAfter(files, target, outcome) ELSE files
                    /\ last' = Op("create", "duplicate", 0, FALSE, f,
                                  IF r.ok THEN "error" ELSE "ValidationError",
                                  IF r.ok THEN "warned" ELSE "none")
                    /\ UNCHANGED << cars, seq, car_images, img_seq, now, model_data,
                                    search_data, current_role, created, deleted,
                                    updates_done, workbook, main_pc >>
               ELSE /\ Inserted([d EXCEPT !.image_path = IF copying THEN target ELSE Empty])
                    /\ files' = IF copying THEN files \cup {target} ELSE files
                    /\ model_data' = FetchAllCars(cars')
                    /\ last' = Op("create", "duplicate", NextId(cars, seq), FALSE, f, "ok",
                                  IF copying THEN "copied" ELSE "none")
                    /\ UNCHANGED << car_images, img_seq, now, search_data, current_role,
                                    deleted, updates_done, workbook, main_pc >>
DuplicateSelectedCar(changes) ==
    \E k \in 1..Len(model_data), ch \in changes, outcome \in CopyOutcomes :
        LET f == Retyped(ApplyPrefill(model_data[k].row), ch)
            r == GetData(f)
            d == r.data
            copying == Truthy(d.image_path) /\ Exists(d.image_path, files)
            target == StoredName(d.make, d.model, d.year, now, SplitExt(d.image_path))
            stored == IF copying THEN StoredPathAfter(Empty, target, outcome) ELSE Empty
        IN  /\ FormDomain(f)
            /\ IF ~r.ok
               THEN /\ outcome = "copied"
                    /\ last' = Op("create", "duplicate", 0, FALSE, f, "ValidationError",
                                  "none")
                    /\ UNCHANGED << cars, seq, car_images, img_seq, files, now,
                                    model_data, search_data, current_role, created,
                                    deleted, updates_done, workbook, main_pc >>
               ELSE /\ (~copying => outcome = "copied")
                    /\ Inserted([d EXCEPT !.image_path = stored])
                    /\ files' = IF copying THEN FilesAfter(files, target, outcome) ELSE files
                    /\ model_data' = FetchAllCars(cars')
                    /\ last' = Op("create", "duplicate", NextId(cars, seq), FALSE, f, "ok",
                                  IF ~copying THEN "none"
                                  ELSE IF outcome = "copied" THEN "copied" ELSE "warned")
                    /\ UNCHANGED << car_images, img_seq, now, search_data, current_role,
                                    deleted, updates_done, workbook, main_pc >>

\* field maps handed to update_car
UpdateChoices ==
    { ("price" :> 50000), ("price" :> 0 - 5), ("year" :> YearMin - 1),
      ("make" :> Empty), ("type" :> Bus), ("engine_power" :> 0),
      ("make" :> BMW) @@ ("year" :> 2021) }

\* gui.Database.update_car(car_id, updates); an empty dict makes a statement
\* SQLite rejects, and that exception or the one of UpdateRaises leaves the
\* method
StoreUpdateCar(ids, maps) ==
    \E car_id \in ids, u \in maps :
        IF DOMAIN u = {} \/ UpdateRaises(cars, car_id, u)
        THEN /\ last' = Op("update", "store", car_id, car_id \in DOMAIN cars, u,
                           "raised", "none")
             /\ UNCHANGED << cars, seq, car_images, img_seq, files, now, model_data,
                             search_data, current_role, created, deleted, updates_done,
                             workbook, main_pc >>
        ELSE /\ updates_done < MaxUpdates
             /\ updates_done' = updates_done + 1
             /\ cars' = UpdateCar(cars, car_id, u)
             /\ last' = Op("update", "store", car_id, car_id \in DOMAIN cars, u, "ok",
                           "none")
             /\ UNCHANGED << seq, car_images, img_seq, files, now, model_data,
                             search_data, current_role, created, deleted, workbook,
                             main_pc >>

\* database.Database.update_car(car_id, updates); an empty dict returns None,
\* and so does execute_query when the UPDATE raises
DbUpdateCar(ids, maps) ==
    \E car_id \in ids, u \in maps :
        IF DOMAIN u = {} \/ UpdateRaises(cars, car_id, u)
        THEN /\ last' = Op("update", "db", car_id, car_id \in DOMAIN cars, u, "none",
                           "none")
             /\ UNCHANGED << cars, seq, car_images, img_seq, files, now, model_data,
                             search_data, current_role, created, deleted, updates_done,
                             workbook, main_pc >>
        ELSE /\ updates_done < MaxUpdates
             /\ updates_done' = updates_done + 1
             /\ cars' = UpdateCar(cars, car_id, u)
             /\ last' = Op("update", "db", car_id, car_id \in DOMAIN cars, u, "ok",
                           "none")
             /\ UNCHANGED << seq, car_images, img_seq, files, now, model_data,
                             search_data, current_role, created, deleted, workbook,
                             main_pc >>

\* the fields ManagingSystem.update_car prompts for, and their dtype
CliFields == {"make", "model", "year", "price", "color"}
\* what the user types at its prompts; Empty is a blank line
NoTyping == [c \in CliFields |-> Empty]
CliUpdateChoices ==
    { NoTyping,
      [NoTyping EXCEPT !["price"] = IntToStr(50000)],
      [NoTyping EXCEPT !["price"] = <<"-">> \o IntToStr(5)],
      [NoTyping EXCEPT !["year"] = IntToStr(YearMin - 1)],
      [NoTyping EXCEPT !["make"] = Blank],
      [NoTyping EXCEPT !["year"] = <<"x">>] }

\* dtype(new_val) of the fields typed: [ok, updates]; ok = FALSE is the
\* ValueError of int() or float(), which nothing catches
CliConvert(typing) ==
    LET given == {c \in CliFields : typing[c] # Empty}
        year == ParseInt(typing["year"])
        price == ParseFloat(typing["price"])
    IN  [ok |-> ("year" \in given => year.ok) /\ ("price" \in given => price.ok),
         updates |-> [c \in given |->
                        IF c = "year" THEN year.val
                        ELSE IF c = "price" THEN price.val
                        ELSE typing[c]]]

\* ManagingSystem.update_car; id = ? compares the text typed with the integer
\* key under the column's affinity
CliUpdateCar(idTexts, typings) ==
    \E idText \in idTexts, typing \in typings :
        LET p == ParseInt(idText)
            car_id == IF p.ok THEN p.val ELSE 0
            r == CliConvert(typing)
        IN  IF car_id \notin DOMAIN cars
            THEN /\ last' = Op("update", "cli", car_id, FALSE, <<>>, "NotFound", "none")
                 /\ UNCHANGED << cars, seq, car_images, img_seq, files, now, model_data,
                                 search_data, current_role, created, deleted,
                                 updates_done, workbook, main_pc >>
            ELSE IF ~r.ok
            THEN /\ last' = Op("update", "cli", car_id, TRUE, <<>>, "ValueError", "none")
                 /\ UNCHANGED << cars, seq, car_images, img_seq, files, now, model_data,
                                 search_data, current_role, created, deleted,
                                 updates_done, workbook, main_pc >>
            ELSE IF DOMAIN r.updates = {}
            THEN /\ last' = Op("update", "cli", car_id, TRUE, r.updates, "no_changes",
                               "none")
                 /\ UNCHANGED << cars, seq, car_images, img_seq, files, now, model_data,
                                 search_data, current_role, created, deleted,
                                 updates_done, workbook, main_pc >>
            ELSE /\ updates_done < MaxUpdates
                 /\ updates_done' = updates_done + 1
                 /\ cars' = UpdateCar(cars, car_id, r.updates)
                 /\ last' = Op("update", "cli", car_id, TRUE, r.updates, "ok", "none")
                 /\ UNCHANGED << seq, car_images, img_seq, files, now, model_data,
                                 search_data, current_role, created, deleted, workbook,
                                 main_pc >>

\* GalleryDialog.set_main on a picture of the selected car's gallery, then
\* MainWindow.open_gallery reloads the table
GallerySetMain ==
    \E k \in 1..Len(model_data) :
        LET car_id == model_data[k].id
        IN  \E img \in FetchImages(car_images, car_id) :
                /\ updates_done < MaxUpdates
                /\ updates_done' = updates_done + 1
                /\ cars' = UpdateCar(cars, car_id, ("image_path" :> car_images[img].path))
                /\ model_data' = FetchAllCars(cars')
                /\ last' = Op("update", "set_main", car_id, car_id \in DOMAIN cars,
                              ("image_path" :> car_images[img].path), "ok", "none")
                /\ UNCHANGED << seq, car_images, img_seq, files, now, search_data,
                                current_role, created, deleted, workbook, main_pc >>

\* MainWindow.open_gallery on the selected row, then GalleryDialog.remove_selected
\* on one of its pictures, the question answered Yes; an os.remove that
\* raises is swallowed.  The dialog is then closed, which reloads nothing.
GalleryRemoveSelected ==
    \E k \in 1..Len(model_data), removed \in BOOLEAN :
        LET car_id == model_data[k].id
        IN  \E img \in FetchImages(car_images, car_id) :
                LET path == car_images[img].path
                    there == Exists(path, files)
                IN  /\ img_seq <= MaxImgId
                    /\ (~there => removed)
                    /\ car_images' = DeleteImage(car_images, img)
                    /\ files' = IF there /\ removed THEN files \ {path} ELSE files
                    /\ last' = Op("delete_image", "gallery", car_id,
                                  car_id \in DOMAIN cars, path, "ok",
                                  IF ~there THEN "none"
                                  ELSE IF removed THEN "removed" ELSE "remove_failed")
                    /\ UNCHANGED << cars, seq, img_seq, now, model_data, search_data,
                                    current_role, created, deleted, updates_done,
                                    workbook, main_pc >>

\* MainWindow._handle_drop_image: a picture dropped on the preview of the
\* selected row
HandleDropImage(outcomes) ==
    \E k \in 1..Len(model_data), p \in UserFiles,
       outcome \in outcomes \cap (CopyOutcomes \cup {"remove_failed"}) :
        LET car == model_data[k]
            old == car.row.image_path
            ext == IF SplitExt(p) = Empty THEN <<".", "p", "n", "g">> ELSE SplitExt(p)
            target == StoredName(car.row.make, car.row.model, car.row.year, now, ext)
            written == FilesAfter(files, target,
                                  IF outcome = "remove_failed" THEN "copied" ELSE outcome)
            there == Truthy(old) /\ Exists(old, written)
        IN  IF outcome \in {"mkdir_failed", "open_failed", "write_failed"}
            THEN /\ files' = written
                 /\ last' = Op("update", "drop", car.id, car.id \in DOMAIN cars, <<>>,
                               "error", "warned")
                 /\ UNCHANGED << cars, seq, car_images, img_seq, now, model_data,
                                 search_data, current_role, created, deleted,
                                 updates_done, workbook, main_pc >>
            ELSE /\ (outcome = "remove_failed" => there)
                 /\ updates_done < MaxUpdates
                 /\ updates_done' = updates_done + 1
                 /\ files' = IF there /\ outcome = "copied" THEN written \ {old}
                             ELSE written
                 /\ cars' = UpdateCar(cars, car.id, ("image_path" :> target))
                 /\ model_data' = FetchAllCars(cars')
                 /\ last' = Op("update", "drop", car.id, car.id \in DOMAIN cars,
                               ("image_path" :> target), "ok", "copied")
                 /\ UNCHANGED << seq, car_images, img_seq, now, search_data,
                                 current_role, created, deleted, workbook, main_pc >>


(***************************************************************************)
(* Deletes.                                                                *)
(***************************************************************************)
\* MainWindow.delete_selected_car with row k selected and the question
\* answered Yes; os.remove of the picture may raise, which is swallowed
DeleteSelectedCarAnyRole ==
    \E k \in 1..Len(model_data), removed \in BOOLEAN :
        LET car == model_data[k]
            img == car.row.image_path
            there == Truthy(img) /\ Exists(img, files)
        IN  /\ (~there => removed)
            /\ files' = IF there /\ removed THEN files \ {img} ELSE files
            /\ cars' = DeleteCar(cars, car.id)
            /\ deleted' = deleted \cup ({car.id} \cap DOMAIN cars)
            /\ model_data' = FetchAllCars(cars')
            /\ last' = Op("delete", "gui", car.id, car.id \in DOMAIN cars, <<>>,
                          "ok", IF ~there THEN "none"
                                ELSE IF removed THEN "removed" ELSE "remove_failed")
            /\ UNCHANGED << seq, car_images, img_seq, now, search_data,
                            current_role, created, updates_done, workbook, main_pc >>
DeleteSelectedCar ==
    IF current_role # "admin"
    THEN /\ last' = Op("delete", "gui", 0, FALSE, <<>>, "denied", "none")
         /\ UNCHANGED << cars, seq, car_images, img_seq, files, now, model_data,
                         search_data, current_role, created, deleted, updates_done, workbook,
                         main_pc >>
    ELSE \E k \in 1..Len(model_data), removed \in BOOLEAN :
            LET car == model_data[k]
                img == car.row.image_path
                there == Truthy(img) /\ Exists(img, files)
            IN  /\ (~there => removed)
                /\ files' = IF there /\ removed THEN files \ {img} ELSE files
                /\ cars' = DeleteCar(cars, car.id)
                /\ deleted' = deleted \cup ({car.id} \cap DOMAIN cars)
                /\ model_data' = FetchAllCars(cars')
                /\ last' = Op("delete", "gui", car.id, car.id \in DOMAIN cars, <<>>,
                              "ok", IF ~there THEN "none"
                                    ELSE IF removed THEN "removed" ELSE "remove_failed")
                /\ UNCHANGED << seq, car_images, img_seq, now, search_data,
                                current_role, created, updates_done, workbook, main_pc >>

\* gui.Database.delete_car(car_id)
StoreDeleteCarCascade(ids) ==
    \E car_id \in ids :
        /\ cars' = DeleteCar(cars, car_id)
        /\ car_images' = [i \in DOMAIN car_images \ FetchImages(car_images, car_id)
                             |-> car_images[i]]
        /\ deleted' = deleted \cup ({car_id} \cap DOMAIN cars)
        /\ last' = Op("delete", "store", car_id, car_id \in DOMAIN cars, <<>>, "ok",
                      "none")
        /\ UNCHANGED << seq, img_seq, files, now, model_data, search_data,
                        current_role, created, updates_done, workbook, main_pc >>
StoreDeleteCar(ids) ==
    \E car_id \in ids :
        /\ cars' = DeleteCar(cars, car_id)
        /\ deleted' = deleted \cup ({car_id} \cap DOMAIN cars)
        /\ last' = Op("delete", "store", car_id, car_id \in DOMAIN cars, <<>>, "ok",
                      "none")
        /\ UNCHANGED << seq, car_images, img_seq, files, now, model_data, search_data,
                        current_role, created, updates_done, workbook, main_pc >>

\* database.Database.delete_car(car_id)
DbDeleteCar(ids) ==
    \E car_id \in ids :
        /\ cars' = DeleteCar(cars, car_id)
        /\ deleted' = deleted \cup ({car_id} \cap DOMAIN cars)
        /\ last' = Op("delete", "db", car_id, car_id \in DOMAIN cars, <<>>, "ok",
                      "none")
        /\ UNCHANGED << seq, car_images, img_seq, files, now, model_data, search_data,
                        current_role, created, updates_done, workbook, main_pc >>

(***************************************************************************)
(* Writes whose statement raises sqlite3.Error for a reason outside the    *)
(* program: the database file is locked by the other program, or the disk  *)
(* is full.  Nothing is stored.                                            *)
(***************************************************************************)
\* gui.Database.insert_car: conn.execute raises and nothing catches it
StoreInsertCarFails(tuples) ==
    \E t \in tuples :
        /\ last' = Op("create", "store", 0, FALSE, t, "raised", "none")
        /\ UNCHANGED << cars, seq, car_images, img_seq, files, now, model_data,
                        search_data, current_role, created, deleted, updates_done, workbook,
                        main_pc >>

\* database.Database.add_car: execute_query prints the error and returns None,
\* and add_car returns None
DbAddCarFails(dicts) ==
    \E t \in dicts :
        /\ last' = Op("create", "db_add", 0, FALSE, t, "none", "none")
        /\ UNCHANGED << cars, seq, car_images, img_seq, files, now, model_data,
                        search_data, current_role, created, deleted, updates_done, workbook,
                        main_pc >>

\* ManagingSystem.add_car: execute_query returns None, which add_car does not
\* look at before it prints "Car added successfully!"
CliAddCarFails(typings) ==
    \E typed \in typings :
        LET r == InputFullInfo(typed)
        IN  /\ last' = IF ~r.ok
                       THEN Op("create", "cli", 0, FALSE, typed, "ValueError", "none")
                       ELSE Op("create", "cli", 0, FALSE, r.data, "ok", "none")
            /\ UNCHANGED << cars, seq, car_images, img_seq, files, now, model_data,
                            search_data, current_role, created, deleted, updates_done,
                            workbook, main_pc >>

(***************************************************************************)
(* The console program (main.main).                                        *)
(***************************************************************************)
\* one turn of the loop of main: display_menu, input, and the method the
\* choice selects, run to its end; an exception no one catches ends main
MainLoop(choices, typings, idTexts, changes) ==
    /\ main_pc = "menu"
    /\ \E choice \in choices :
        IF choice = <<"1">>
        THEN \E typed \in typings :
                LET r == InputFullInfo(typed)
                IN  IF ~r.ok
                    THEN /\ main_pc' = "raised"
                         /\ last' = Op("create", "main", 0, FALSE, typed, "ValueError",
                                       "none")
                         /\ UNCHANGED << cars, seq, created, updates_done >>
                    ELSE /\ Inserted([r.data EXCEPT !.image_path = Null])
                         /\ main_pc' = "menu"
                         /\ last' = Op("create", "main", NextId(cars, seq), FALSE, r.data,
                                       "ok", "none")
                         /\ UNCHANGED updates_done
        ELSE IF choice \in {<<"2">>, <<"3">>}
        THEN /\ main_pc' = "raised"
             /\ last' = Op(IF choice = <<"2">> THEN "view" ELSE "search", "main", 0, FALSE,
                           <<>>, "AttributeError", "none")
             /\ UNCHANGED << cars, seq, created, updates_done >>
        ELSE IF choice = <<"4">>
        THEN \E idText \in idTexts, typing \in changes :
                LET p == ParseInt(idText)
                    car_id == IF p.ok THEN p.val ELSE 0
                    r == CliConvert(typing)
                    found == car_id \in DOMAIN cars
                    writes == found /\ r.ok /\ DOMAIN r.updates # {}
                IN  /\ writes => updates_done < MaxUpdates
                    /\ updates_done' = IF writes THEN updates_done + 1 ELSE updates_done
                    /\ cars' = IF writes THEN UpdateCar(cars, car_id, r.updates) ELSE cars
                    /\ main_pc' = IF found /\ ~r.ok THEN "raised" ELSE "menu"
                    /\ last' = Op("update", "main", car_id, found,
                                  IF writes THEN r.updates ELSE <<>>,
                                  IF ~found THEN "NotFound"
                                  ELSE IF ~r.ok THEN "ValueError"
                                  ELSE IF ~writes THEN "no_changes" ELSE "ok", "none")
                    /\ UNCHANGED << seq, created >>
        ELSE IF choice = <<"5">>
        THEN /\ main_pc' = "exited"
             /\ last' = Op("exit", "main", 0, FALSE, <<>>, "ok", "none")
             /\ UNCHANGED << cars, seq, created, updates_done >>
        ELSE /\ main_pc' = "menu"
             /\ last' = Op("invalid", "main", 0, FALSE, choice, "ok", "none")
             /\ UNCHANGED << cars, seq, created, updates_done >>
    /\ UNCHANGED << car_images, img_seq, files, now, model_data, search_data,
                    current_role, deleted, workbook >>

(***************************************************************************)
(* Export and import (MainWindow.export_to_excel, MainWindow.import_data). *)
(*                                                                         *)
(* The workbook holds the rows of fetch_all_cars under the columns         *)
(* HEADER_KEYS + ["Image Path"].  read_excel gives NaN for a cell that is  *)
(* empty, which is what None and "" were written as.                       *)
(***************************************************************************)
\* str(r[c]).strip() of a text column; str(nan) is "nan"
StrCell(v) == IF v = Null \/ v = Empty THEN NaN ELSE Strip(v)

\* int(r[c]): raises on NaN and on text that is not a number
IntCell(v) == IF IsText(v) THEN [ok |-> FALSE, val |-> 0] ELSE [ok |-> TRUE, val |-> v]

\* float(r[c]): NaN stays NaN, which sqlite stores as NULL
FloatCell(v) ==
    IF ~IsText(v) THEN [ok |-> TRUE, nan |-> FALSE, val |-> v]
    ELSE IF TextOfCell(v) \in {Null, NaN}
    THEN [ok |-> TRUE, nan |-> TRUE, val |-> CellOfText(Null)]
    ELSE [ok |-> FALSE, nan |-> FALSE, val |-> 0]

\* the body of the loop of import_data for one row of the table: the tuple
\* handed to insert_car, or a failure
ImportRow(rec) ==
    LET r == rec.row
        year == IntCell(r.year)
        price == FloatCell(r.price)
        engine == IntCell(r.engine_power)
        liter == IntCell(r.liter_capacity)
        t == Row(StrCell(r.make), StrCell(r.model), year.val, price.val, StrCell(r.color),
                 StrCell(r.type), StrCell(r.condition), StrCell(r.drive_trains),
                 engine.val, liter.val, StrCell(r.salesperson), Empty)
    IN  [ok |-> /\ year.ok /\ price.ok /\ engine.ok /\ liter.ok
                /\ \A c \in {"make", "model", "color", "salesperson"} : t[c] # Empty
                /\ t.type \in Range(ENUM_TYPES)
                /\ t.condition \in Range(ENUM_CONDITIONS)
                /\ t.drive_trains \in Range(ENUM_DRIVES)
                /\ YearMin <= t.year /\ t.year <= YearMax
                /\ (price.nan \/ t.price > 0)
                /\ t.engine_power > 0 /\ t.liter_capacity > 0,
         row |-> t]

\* the loop of import_data over the rows of the table from row k on
RECURSIVE ImportRows(_, _, _)
ImportRows(table, k, st) ==
    IF k > Len(table) THEN st
    ELSE LET r == ImportRow(table[k])
         IN  ImportRows(table, k + 1,
                 IF r.ok
                 THEN [cars |-> InsertCar(st.cars, st.seq, r.row),
                       seq |-> Max(st.seq, NextId(st.cars, st.seq)),
                       created |-> Append(st.created, NextId(st.cars, st.seq)),
                       ok |-> st.ok + 1, failed |-> st.failed]
                 ELSE [st EXCEPT !.failed = st.failed + 1])

\* MainWindow.export_to_excel; choice is what the file dialog returned
ExportToExcel(choices) ==
    \E choice \in choices \cap {"chosen", "cancelled"} :
        /\ IF cars = <<>>
           THEN /\ last' = Op("export", "gui", 0, FALSE, <<>>, "warning", "none")
                /\ UNCHANGED workbook
           ELSE IF choice = "cancelled"
           THEN /\ last' = Op("export", "gui", 0, FALSE, <<>>, "cancelled", "none")
                /\ UNCHANGED workbook
           ELSE /\ workbook' = FetchAllCars(cars)
                /\ last' = Op("export", "gui", 0, FALSE, <<>>, "ok", "none")
        /\ UNCHANGED << cars, seq, car_images, img_seq, files, now, model_data,
                        search_data, current_role, created, deleted, updates_done,
                        main_pc >>

\* import_data once the file is read: the loop, load_data and the report
Imported(table) ==
    /\ Len(created) + Len(table) <= MaxId
    /\ LET st == ImportRows(table, 1, [cars |-> cars, seq |-> seq, created |-> created,
                                       ok |-> 0, failed |-> 0])
       IN  /\ cars' = st.cars
           /\ seq' = st.seq
           /\ created' = st.created
           /\ model_data' = FetchAllCars(st.cars)
           /\ last' = Op("import", "gui", 0, FALSE, table,
                         [ok |-> st.ok, failed |-> st.failed], "none")
    /\ UNCHANGED << car_images, img_seq, files, now, search_data, current_role,
                    deleted, updates_done, workbook, main_pc >>

\* MainWindow.import_data of the workbook that export_to_excel wrote
ImportData ==
    /\ workbook # <<>>
    /\ Imported(workbook)

\* MainWindow.import_data of a spreadsheet the user made, its rows under the
\* required column names
ImportFile(tables) ==
    \E table \in tables : Imported(table)

(***************************************************************************)
(* The system.                                                             *)
(***************************************************************************)
\* Database.__init__ on a fresh car_sales.db, MainWindow.__init__ after login
Init ==
    /\ cars = <<>>
    /\ seq = 0
    /\ car_images = <<>>
    /\ img_seq = 0
    /\ files = {}
    /\ now = 0
    /\ model_data = <<>>
    /\ search_data = <<>>
    /\ current_role \in {"admin", "salesperson"}
    /\ last = Op("none", "none", 0, FALSE, <<>>, "ok", "none")
    /\ created = <<>>
    /\ deleted = {}
    /\ updates_done = 0
    /\ workbook = <<>>
    /\ main_pc = "menu"

\* the ids a caller may name: those assigned so far and the next one
Ids == 1..(MaxId + 1)
IdTexts == {IntToStr(i) : i \in Ids}

\* the create paths, with the inputs the claims about create speak of
NextCreate ==
    \/ AddCarDialog(FormChoices)
    \/ StoreInsertCar(RawChoices)
    \/ DbAddCar(DictChoices)
    \/ DbInsertCar(Vary(BaseRow, "engine_power", {0}))
    \/ CliAddCar({Typed(t) : t \in ConsoleChoices}
                 \cup {[Typed(BaseRow) EXCEPT !.year = <<"x">>]})
    \/ GalleryAddImages(CopyOutcomes)

SpecCreate == Init /\ [][NextCreate]_vars

\* the update paths over a store filled by the form and the console
NextUpdate ==
    \/ AddCarDialog({BaseRow})
    \/ CliAddCar({[Typed(BaseRow) EXCEPT !.year = IntToStr(YearMin - 1)]})
    \/ GalleryAddImages({"copied"})
    \/ InlineEditDashboard({1, 4})
    \/ EditSelectedCar({<<>>, ("price" :> 0), ("image_path" :> Pic)})
    \/ StoreUpdateCar({1, MaxId + 1}, UpdateChoices \cup {<<>>})
    \/ DbUpdateCar({1}, {("price" :> 0 - 5), <<>>})
    \/ CliUpdateCar({IntToStr(1), IntToStr(MaxId + 1)}, CliUpdateChoices)

SpecUpdate == Init /\ [][NextUpdate]_vars

\* creates, updates and deletes in any order
NextDelete ==
    \/ AddCarDialog({BaseRow, [BaseRow EXCEPT !.image_path = Pic]})
    \/ CliAddCar({Typed(BaseRow)})
    \/ DeleteSelectedCar
    \/ StoreDeleteCar(Ids)
    \/ DbDeleteCar(Ids)
    \/ StoreUpdateCar(Ids, {("price" :> 50000), ("id" :> 1)})
    \/ GalleryAddImages({"copied"})
    \/ Refresh

SpecDelete == Init /\ [][NextDelete]_vars

\* every update path, update_car given maps that name id among them
IdChoices == { ("id" :> MaxId + 1), ("id" :> 2), ("id" :> 1) @@ ("price" :> 50000) }

NextIdentity ==
    \/ AddCarDialog({BaseRow, [BaseRow EXCEPT !.image_path = Pic]})
    \/ GalleryAddImages({"copied"})
    \/ InlineEditDashboard({4})
    \/ EditSelectedCar({<<>>})
    \/ GallerySetMain
    \/ HandleDropImage(CopyOutcomes \cup {"remove_failed"})
    \/ StoreUpdateCar(Ids, IdChoices)
    \/ DbUpdateCar(Ids, IdChoices)

SpecIdentity == Init /\ [][NextIdentity]_vars

\* writes that meet a failure of the storage layer
NextStorage ==
    \/ AddCarDialog({BaseRow, [BaseRow EXCEPT !.image_path = Pic]})
    \/ CliAddCar({Typed(BaseRow)})
    \/ StoreInsertCarFails({BaseRow})
    \/ DbAddCarFails({BaseRow})
    \/ CliAddCarFails({Typed(BaseRow), [Typed(BaseRow) EXCEPT !.year = <<"x">>]})
    \/ StoreUpdateCar(Ids, IdChoices \cup {<<>>})
    \/ DbUpdateCar(Ids, IdChoices \cup {<<>>})
    \/ DbDeleteCar(Ids)

SpecStorage == Init /\ [][NextStorage]_vars

\* searches over a store of cars that differ in what the criteria look at
SearchRows ==
    { BaseRow,
      [BaseRow EXCEPT !.condition = Used],
      [BaseRow EXCEPT !.make = BMW, !.year = 2021, !.price = 50000,
                      !.condition = Used, !.drive_trains = ENUM_DRIVES[2]] }

NextSearch ==
    \/ StoreInsertCar(SearchRows)
    \/ PerformSearch(SearchChoices)
    \/ InlineEditSearch({7})
    \/ StoreDeleteCar({1})

SpecSearch == Init /\ [][NextSearch]_vars

\* sorting the search table, some rows holding text where a number belongs
SortRows ==
    {BaseRow, [BaseRow EXCEPT !.make = BMW, !.price = 50000]}
    \cup Vary(BaseRow, "price", {CellOfText(NaN), CellOfText(<<"x">>)})

NextSort ==
    \/ StoreInsertCar(SortRows)
    \/ CliAddCar({Typed(BaseRow)})
    \/ PerformSearch({NoCriteria})
    \/ SortSearch({0, 1, 4}, BOOLEAN)

SpecSort == Init /\ [][NextSort]_vars

\* the status bar and the analytics page over a store filled by insert_car,
\* one row holding NULL where the price belongs
AggregateRows ==
    {BaseRow, [BaseRow EXCEPT !.make = BMW, !.price = 50000]}
    \cup Vary(BaseRow, "price", {20001, CellOfText(Null)})

NextAggregate ==
    \/ StoreInsertCar(AggregateRows)
    \/ StoreDeleteCar({1})
    \/ RefreshStatus
    \/ ShowAnalytics

SpecAggregate == Init /\ [][NextAggregate]_vars

\* export, emptying the store and import, over rows of which one names a
\* picture, one is not trimmed and one has a year the import refuses
RoundTripRows ==
    {BaseRow, [BaseRow EXCEPT !.image_path = Pic], [BaseRow EXCEPT !.make = <<" ">> \o BMW],
     [BaseRow EXCEPT !.year = YearMin - 1]}

NextRoundTrip ==
    \/ StoreInsertCar(RoundTripRows)
    \/ StoreDeleteCar(Ids)
    \/ ExportToExcel({"chosen", "cancelled"})
    \/ ImportData

SpecRoundTrip == Init /\ [][NextRoundTrip]_vars

\* the same values typed into the form and carried by a one-row spreadsheet
EntryRows ==
    {BaseRow, [BaseRow EXCEPT !.make = BMW, !.price = 50000]}
    \cup Vary(BaseRow, "make", {Empty, <<" ">>})
    \cup Vary(BaseRow, "salesperson", {Empty})
    \cup Vary(BaseRow, "price", {0})
SheetOf(r) == << [id |-> 0, row |-> r] >>

NextEntry ==
    \/ AddCarDialog(EntryRows)
    \/ ImportFile({SheetOf(r) : r \in EntryRows})
    \/ StoreDeleteCar({1})

SpecEntry == Init /\ [][NextEntry]_vars

\* add, duplicate and edit through the form with a picture chosen, the copy
\* ending in each of its ways
PicChoices == {<<>>, ("image_path" :> Pic), ("price" :> 50000) @@ ("image_path" :> Pic)}

NextCopy ==
    \/ AddCarDialog({BaseRow, [BaseRow EXCEPT !.make = <<" ">> \o BMW, !.image_path = Pic]})
    \/ DuplicateSelectedCar(PicChoices)
    \/ EditSelectedCar(PicChoices)

SpecCopy == Init /\ [][NextCopy]_vars

\* attaching pictures: primary pictures through the form and by drop, gallery
\* pictures one or two at a time, while seconds pass
NextAttach ==
    \/ AddCarDialog({[BaseRow EXCEPT !.image_path = Pic],
                     [BaseRow EXCEPT !.make = BMW, !.image_path = Pic]})
    \/ GalleryAddImages({"copied"})
    \/ GalleryAddTwo({"copied", "open_failed"})
    \/ HandleDropImage({"copied"})
    \/ Tick

SpecAttach == Init /\ [][NextAttach]_vars

\* the store's operations on cars and their pictures, called directly
ImgIds == 1..(MaxImgId + 1)
PathChoices == {Empty, JoinImgDir(Pic)}

NextImages ==
    \/ StoreInsertCar({BaseRow})
    \/ StoreDeleteCar(Ids)
    \/ StoreAddImage(Ids, PathChoices)
    \/ StoreDeleteImage(ImgIds)

SpecImages == Init /\ [][NextImages]_vars

\* the console program, every menu option and a choice that is none of them
MenuChoices == {<<"1">>, <<"2">>, <<"3">>, <<"4">>, <<"5">>, <<"9">>}

NextMain ==
    MainLoop(MenuChoices,
             {Typed(BaseRow), Typed([BaseRow EXCEPT !.make = BMW, !.price = 50000]),
              [Typed(BaseRow) EXCEPT !.year = <<"x">>]},
             IdTexts, CliUpdateChoices)

SpecMain == Init /\ [][NextMain]_vars

\* the operations of the window that write to the store, and the search
NextCache ==
    \/ AddCarDialog({BaseRow})
    \/ DuplicateSelectedCar({<<>>})
    \/ EditSelectedCar({("price" :> 50000)})
    \/ InlineEditDashboard({4})
    \/ InlineEditSearch({4})
    \/ PerformSearch({NoCriteria})
    \/ DeleteSelectedCar
    \/ ImportFile({SheetOf([BaseRow EXCEPT !.make = BMW])})
    \/ HandleDropImage({"copied"})

SpecCache == Init /\ [][NextCache]_vars

\* the operations that copy, reference or remove picture files
NextFiles ==
    \/ AddCarDialog({[BaseRow EXCEPT !.image_path = Pic]})
    \/ DuplicateSelectedCar({("image_path" :> Pic)})
    \/ EditSelectedCar({("image_path" :> Pic)})
    \/ HandleDropImage({"copied", "open_failed"})
    \/ GalleryAddImages({"copied"})
    \/ GalleryRemoveSelected
    \/ GallerySetMain
    \/ DeleteSelectedCar

SpecFiles == Init /\ [][NextFiles]_vars

\* the two averages over a store written through database.add_car and
\* insert_car, one dict giving no price
NextAverages ==
    \/ DbAddCar({BaseRow, [BaseRow EXCEPT !.price = CellOfText(Null)]})
    \/ StoreInsertCar({[BaseRow EXCEPT !.make = BMW, !.price = 50000]})
    \/ StoreDeleteCar({1})
    \/ RefreshStatus
    \/ ShowAnalytics

SpecAverages == Init /\ [][NextAverages]_vars

(***************************************************************************)
(* The properties.                                                         *)
(***************************************************************************)
\* the row fetch_car_by_id returns for the record of the last operation
LastRow == FetchCarById(cars, last.id).row

\* the ranges of the data model
NumbersValid(r) ==
    /\ YearMin <= r.year /\ r.year <= YearMax
    /\ r.price > 0 /\ r.engine_power > 0 /\ r.liter_capacity > 0

\* r with its text fields trimmed
Trimmed(r) ==
    [c \in ColumnSet |->
        IF c \in {"make", "model", "color", "type", "condition", "drive_trains",
                  "salesperson"}
        THEN Strip(r[c]) ELSE r[c]]

\* the last operation was a create that went through get_data or add_car
CreateWithTrim == last.op = "create" /\ last.entry \in {"form", "db_add"}

\* C1 as stated: for every input with year in 1886..2050, price, engine_power
\* and liter_capacity above 0 and non-empty make, model, color and salesperson,
\* create succeeds and getById on the new record returns a record whose every
\* field equals the input.
C1_RoundTripExact ==
    (/\ CreateWithTrim
     /\ NumbersValid(last.input)
     /\ \A c \in {"make", "model", "color", "salesperson"} : last.input[c] # Empty)
    => /\ last.result = "ok"
       /\ LastRow = last.input

\* C1 amended: for every input with the numbers in range and make, model, color
\* and salesperson non-empty after trimming, create succeeds and getById on the
\* new record returns the input with its text fields trimmed; image_path is as
\* given for add_car, and for the form it is empty or the name the picture was
\* copied to.
C1_RoundTripTrimmed ==
    (/\ CreateWithTrim
     /\ NumbersValid(last.input)
     /\ \A c \in {"make", "model", "color", "salesperson"} :
            Strip(last.input[c]) # Empty)
    => /\ last.result = "ok"
       /\ last.id \in DOMAIN cars
       /\ \A c \in ColumnSet \ {"image_path"} : LastRow[c] = Trimmed(last.input)[c]
       /\ IF last.entry = "db_add"
          THEN LastRow.image_path = last.input.image_path
          ELSE \/ LastRow.image_path = Empty
               \/ /\ Truthy(last.input.image_path)
                  /\ \E t \in 0..MaxTime :
                        LastRow.image_path =
                            StoredName(LastRow.make, LastRow.model, LastRow.year, t,
                                       SplitExt(last.input.image_path))

\* a form create whose make was typed with a leading blank, stored trimmed, with
\* the picture copied
C1_Witness ==
    /\ last.op = "create" /\ last.entry = "form" /\ last.result = "ok"
    /\ last.input.make = Blank \o Kia
    /\ LastRow.make = Kia
    /\ \E i \in DOMAIN cars : Truthy(cars[i].image_path) /\ cars[i].image_path \in files

\* the last operation was a create whose input holds numbers (the console's
\* typing does once int() and float() have converted it)
CreateOfNumbers ==
    last.op = "create" /\ ~(last.entry = "cli" /\ last.result = "ValueError")

\* C2 as stated: create fails with a ValidationError when year is outside
\* 1886..2050, when price is 0 or negative, or when make is empty, at every
\* create entry point.
C2_CreateRejectsInvalid ==
    (/\ CreateOfNumbers
     /\ \/ last.input.year < YearMin \/ last.input.year > YearMax
        \/ last.input.price <= 0
        \/ last.input.make = Empty)
    => last.result = "ValidationError"

\* C3 as stated: create fails with a ValidationError when type is outside the
\* seven body types, and no record with such a type is persisted by create.
C3_CreateRejectsType ==
    /\ (last.op = "create" /\ last.input.type \notin Range(ENUM_TYPES))
           => last.result = "ValidationError"
    /\ \A k \in 1..Len(created) :
           created[k] \in DOMAIN cars => cars[created[k]].type \in Range(ENUM_TYPES)

\* the constraints of the data model on a stored row
RowValid(r) ==
    /\ NumbersValid(r)
    /\ \A c \in {"make", "model", "color", "salesperson"} : r[c] # Empty
    /\ r.type \in Range(ENUM_TYPES)
    /\ r.condition \in Range(ENUM_CONDITIONS)
    /\ r.drive_trains \in Range(ENUM_DRIVES)

\* C4 as stated: after any sequence of writes through any entry point every
\* stored car satisfies the constraints of the data model.
C4_StoredCarsValid == \A i \in DOMAIN cars : RowValid(cars[i])

\* the fields the last update named
Named(op) == IF op.result = "ok" THEN DOMAIN op.input ELSE {}

\* C5: an update changes only the named fields of the record with that id;
\* every other field of it keeps its value, and every other car row and every
\* car_images row is unchanged.
C5_UpdateFrame ==
    [][last'.op = "update" =>
          /\ car_images' = car_images
          /\ DOMAIN cars' = DOMAIN cars
          /\ \A i \in DOMAIN cars, c \in ColumnSet :
                (i # last'.id \/ c \notin Named(last')) => cars'[i][c] = cars[i][c]]_vars

\* the console's update with only the price typed, on a store of two cars, one
\* of them with a gallery picture
C5_Witness ==
    /\ last.op = "update" /\ last.entry = "cli" /\ last.result = "ok"
    /\ last.input = ("price" :> 50000)
    /\ Cardinality(DOMAIN cars) = 2
    /\ DOMAIN car_images # {}
    /\ LastRow.price = 50000 /\ LastRow.make = Kia
    /\ \E i \in DOMAIN cars : cars[i].price # 50000

\* C6 as stated: an update on an id that is not in the store fails with
\* NotFoundError and does not report success.
C6_UpdateAbsentNotFound ==
    (last.op = "update" /\ ~last.existed) => last.result = "NotFound"

\* a supplied field that violates its constraint
FieldInvalid(c, v) ==
    CASE c = "year" -> v < YearMin \/ v > YearMax
      [] c \in {"price", "engine_power", "liter_capacity"} -> v <= 0
      [] c \in {"make", "model", "color", "salesperson"} -> v = Empty
      [] c = "type" -> v \notin Range(ENUM_TYPES)
      [] c = "condition" -> v \notin Range(ENUM_CONDITIONS)
      [] c = "drive_trains" -> v \notin Range(ENUM_DRIVES)
      [] OTHER -> FALSE

\* C7 as stated: an update rejects any supplied field that violates its
\* constraint.
C7_UpdateRejectsInvalid ==
    (/\ last.op = "update" /\ last.existed
     /\ \E c \in DOMAIN last.input : FieldInvalid(c, last.input[c]))
    => last.result # "ok"

\* C8: when create fails validation the car rows, the car_images rows and the
\* stored image files are what they were before the call.
C8_FailedCreatePersistsNothing ==
    [][(last'.op = "create" /\ last'.result \in {"ValidationError", "ValueError"})
          => cars' = cars /\ car_images' = car_images /\ files' = files]_vars

\* a form with a picture chosen and price 0 was refused, over a store that
\* holds a car, a gallery row and files
C8_Witness ==
    /\ last.op = "create" /\ last.entry = "form" /\ last.result = "ValidationError"
    /\ last.input.image_path = Pic /\ last.input.price = 0
    /\ DOMAIN cars # {} /\ DOMAIN car_images # {} /\ files # {}

\* C9 as stated: once an existing car is deleted, fetch_car_by_id of its id
\* returns no row, whatever creates, updates and deletes follow.
C9_DeletedStaysAbsent == \A i \in deleted : FetchCarById(cars, i) = None

\* C10: the id a create assigns differs from every id an earlier create
\* assigned, deleted records included.
C10_IdsNeverReused ==
    \A j, k \in 1..Len(created) : j # k => created[j] # created[k]

\* a create right after the record with the highest id was deleted and the
\* table left empty
C10_Witness ==
    /\ last.op = "create" /\ last.result = "ok"
    /\ last.id - 1 \in deleted
    /\ DOMAIN cars = {last.id}

\* C11 as stated: no update operation changes the id of an existing car row.
C11_IdImmutable ==
    [][last'.op = "update" =>
          DOMAIN cars' = DOMAIN cars]_vars

\* C12: a delete removes only the car row; every car_images row stays, so
\* fetch_images of the deleted id returns the same rows as before.
C12_DeleteKeepsImages ==
    [][last'.op = "delete" =>
          /\ car_images' = car_images
          /\ FetchImages(car_images', last'.id) = FetchImages(car_images, last'.id)]_vars

\* a car with a gallery picture was deleted and the picture's row is still there
C12_Witness ==
    /\ last.op = "delete" /\ last.result = "ok" /\ last.existed
    /\ last.id \notin DOMAIN cars
    /\ FetchImages(car_images, last.id) # {}

\* C13: delete_selected_car removes the car row whether the removal of the
\* car's picture succeeds, fails or finds no file.
C13_DeleteDespiteFile ==
    [][(last'.op = "delete" /\ last'.entry = "gui" /\ last'.result = "ok") =>
          /\ last'.id \notin DOMAIN cars'
          /\ \A i \in DOMAIN cars \ {last'.id} : i \in DOMAIN cars' /\ cars'[i] = cars[i]
          /\ last'.id \notin {model_data'[k].id : k \in 1..Len(model_data')}]_vars

\* the row of a car is gone though os.remove of its picture raised and the
\* file is still on disk
C13_Witness ==
    /\ last.op = "delete" /\ last.entry = "gui" /\ last.existed
    /\ last.copy = "remove_failed"
    /\ last.id \notin DOMAIN cars
    /\ files # {}

\* C14 as stated: a storage failure during a write is propagated to the caller
\* as a failure; no write returns normally or reports success while the store
\* is left unchanged.  Here: a create that stored nothing reports a failure,
\* and an update whose statement raises reports one.
C14_StorageFailurePropagates ==
    /\ (last.op = "create" /\ last.id = 0)
           => last.result \in {"ValidationError", "ValueError", "raised"}
    /\ (last.op = "update" /\ UpdateRaises(cars, last.id, last.input))
           => last.result = "raised"

\* the ids of the rows a table model holds
IdsOf(data) == {data[k].id : k \in 1..Len(data)}

\* the last operation was a search, whose criteria are last.input with the
\* make trimmed
Searched == last.op = "search"
Criteria == [last.input EXCEPT !.make = Strip(last.input.make)]
AnyItem == <<"A", "n", "y">>

\* the search table shows rows of the store as they are
ShowsStoredRows ==
    \A k \in 1..Len(search_data) :
        /\ search_data[k].id \in DOMAIN cars
        /\ search_data[k].row = cars[search_data[k].id]

\* C15: a search with condition "Any" returns the same records as one with no
\* condition criterion, and a search with condition "Used" returns exactly the
\* records whose condition is "Used" among those the other criteria admit.
C15_ConditionFilter ==
    Searched =>
        /\ ShowsStoredRows
        /\ FetchCarsByFilters(cars, [Criteria EXCEPT !.condition = AnyItem])
               = FetchCarsByFilters(cars, [Criteria EXCEPT !.condition = Empty])
        /\ Criteria.condition = AnyItem
               => search_data = FetchCarsByFilters(cars, [Criteria EXCEPT !.condition = Empty])
        /\ Criteria.condition = Used
               => IdsOf(search_data) =
                      {i \in IdsOf(FetchCarsByFilters(cars, [Criteria EXCEPT !.condition = AnyItem])) :
                          cars[i].condition = Used}

\* a search for "Used" over a store holding a used and a new car
C15_Witness ==
    /\ Searched /\ last.input.condition = Used
    /\ Len(search_data) = 1
    /\ \E i \in DOMAIN cars : cars[i].condition = New
    /\ \E i \in DOMAIN cars : cars[i].condition = Used

\* a record satisfies the year, price, condition and drive criteria of q
InBounds(r, q) ==
    /\ (q.year_min = 0 \/ q.year_min <= r.year)
    /\ (q.year_max = 0 \/ r.year <= q.year_max)
    /\ (q.price_min = 0 \/ q.price_min <= r.price)
    /\ (q.price_max = 0 \/ r.price <= q.price_max)
    /\ (q.condition = AnyItem \/ r.condition = q.condition)
    /\ (q.drive_trains = AnyItem \/ r.drive_trains = q.drive_trains)

\* C16: a search returns exactly the records that satisfy every criterion
\* given, the year and price bounds inclusive, condition and drive by exact
\* match; with no criteria it returns every record.
C16_FilterConjunction ==
    (Searched /\ Criteria.make = Empty) =>
        /\ ShowsStoredRows
        /\ IdsOf(search_data) = {i \in DOMAIN cars : InBounds(cars[i], Criteria)}
        /\ Criteria = NoCriteria => IdsOf(search_data) = DOMAIN cars

\* a search with both year bounds on the year of a used car returns it and
\* leaves out the used car of another year
C16_Witness ==
    /\ Searched
    /\ last.input.year_min = 2020 /\ last.input.year_max = 2020
    /\ last.input.condition = Used
    /\ Len(search_data) = 1 /\ search_data[1].row.year = 2020
    /\ Cardinality(DOMAIN cars) = 2
    /\ \A i \in DOMAIN cars : cars[i].condition = Used

\* text with its ASCII letters folded
FoldAll(t) == [k \in 1..Len(t) |-> Fold(t[k])]
\* s occurs in t as a contiguous run of characters
Contains(t, s) ==
    \E k \in 0..(Len(t) - Len(s)) : SubSeq(t, k + 1, k + Len(s)) = s

\* C17 as stated: a search with make substring s returns exactly the records
\* whose make contains s when letter case is ignored, every character of s
\* matched as itself.
C17_MakeSubstring ==
    (Searched /\ Criteria.make # Empty) =>
        IdsOf(search_data) =
            {i \in DOMAIN cars : /\ Contains(FoldAll(cars[i].make), FoldAll(Criteria.make))
                                 /\ InBounds(cars[i], Criteria)}

\* the value of a numeric cell is a number
Numeric(v) == ~IsText(v)

\* C18 as stated: an ascending sort on a numeric column orders the records by
\* numeric value with every record whose value is not a number after every
\* record whose value is one, and the result is a permutation of the input.
C18_NumericSort ==
    [][(last'.op = "sort" /\ last'.input.column \in NUMERIC_COLS
        /\ ~last'.input.descending) =>
          /\ Len(search_data') = Len(search_data)
          /\ \A k \in 1..Len(search_data) :
                \E j \in 1..Len(search_data') : search_data'[j] = search_data[k]
          /\ \A j, k \in 1..Len(search_data') :
                LET a == Cell(search_data'[j], last'.input.column)
                    b == Cell(search_data'[k], last'.input.column)
                IN  j < k => /\ (Numeric(a) /\ Numeric(b) => a <= b)
                             /\ ~(~Numeric(a) /\ Numeric(b))]_vars

\* the prices of the records that have one, and the k-th smallest of them
PricesOf(data) ==
    SelectSeq([k \in 1..Len(data) |-> Cell(data[k], 4)], Numeric)
Kth(prices, k) ==
    CHOOSE v \in {prices[i] : i \in 1..Len(prices)} :
        /\ Cardinality({i \in 1..Len(prices) : prices[i] < v}) < k
        /\ Cardinality({i \in 1..Len(prices) : prices[i] <= v}) >= k
StatedMean(data) ==
    IF data = <<>> THEN Zero ELSE Quotient(SumSeq(PricesOf(data)), Len(data))
StatedMedian(prices) ==
    LET n == Len(prices)
    IN  IF n = 0 THEN Zero
        ELSE IF n % 2 = 1 THEN Quotient(Kth(prices, (n + 1) \div 2), 1)
        ELSE Quotient(Kth(prices, n \div 2) + Kth(prices, (n \div 2) + 1), 2)
ExamplePrices == <<10000, 20000, 30000, 40000>>

\* C19 as stated: the aggregate of a record set returns the number of records
\* as count, the sum of the prices divided by that count as mean (0 for no
\* records) and, where every record has a price, the middle price in ascending
\* order as median (the average of the two middle prices for an even count, 0
\* for no records); prices 10000, 20000, 30000, 40000 give 25000 and 25000
C19_Aggregate ==
    /\ last.op = "status" =>
          /\ ~last.result.raised
          /\ last.result.rows = Len(model_data)
          /\ last.result.avg = StatedMean(model_data)
          /\ Len(PricesOf(model_data)) = Len(model_data) =>
                last.result.med = StatedMedian(PricesOf(model_data))
    /\ last.op = "analytics" =>
          /\ ~last.result.raised
          /\ last.result.total = Cardinality(DOMAIN cars)
          /\ last.result.avg = StatedMean(FetchAllCars(cars))
    /\ Quotient(SumSeq(ExamplePrices), Len(ExamplePrices)) = Quotient(25000, 1)
    /\ Median(ExamplePrices) = Quotient(25000, 1)


\* how many records of a table have the fields of row r (the id aside)
CountOf(table, r) == Cardinality({k \in 1..Len(table) : table[k].row = r})

\* C20 as stated: importing the exported table into an empty store yields as
\* many records as were exported, equal to them in every field but the id
C20_RoundTrip ==
    [][(last'.op = "import" /\ cars = <<>>) =>
          /\ Cardinality(DOMAIN cars') = Len(workbook)
          /\ \A k \in 1..Len(workbook) :
                CountOf(FetchAllCars(cars'), workbook[k].row)
                    = CountOf(workbook, workbook[k].row)]_vars

\* C21 as stated: a spreadsheet row is accepted by import_data exactly when
\* the form accepts the same values, and a row whose make, model, color or
\* salesperson cell is empty is rejected
C21_SameValidation ==
    (last.op = "import" /\ Len(last.input) = 1 /\ FormDomain(last.input[1].row)) =>
        /\ (last.result.ok = 1) <=> GetData(last.input[1].row).ok
        /\ (\E c \in {"make", "model", "color", "salesperson"} :
                last.input[1].row[c] = Empty) => last.result.ok = 0

C23_UniqueNames ==
    /\ \A i, j \in DOMAIN cars :
          (i # j /\ Truthy(cars[i].image_path)) => cars[i].image_path # cars[j].image_path
    /\ \A i, j \in DOMAIN car_images :
          i # j => car_images[i].path # car_images[j].path

\* C24 as stated: add_image with an empty path is rejected, and no car_images
\* row with an empty path is ever stored
C24_PathNonEmpty ==
    /\ \A i \in DOMAIN car_images : car_images[i].path # Empty
    /\ (last.op = "add_image" /\ last.entry = "store" /\ last.input = Empty) =>
          last.result # "ok"

\* C28 as stated: right after a create returned id n, no car_images row
\* belongs to car n
C28_NewCarNoImages ==
    (last.op = "create" /\ last.result = "ok" /\ last.id \in DOMAIN cars) =>
        FetchImages(car_images, last.id) = {}

\* C25 as stated: the loop of main is left only by option 5; after every
\* other input the operation completes and the menu is shown again
C25_ExitOnlyOnFive ==
    main_pc = "menu" \/ (main_pc = "exited" /\ last.op = "exit")

\* every row of a table model is the store's row of the same id
Current(data) ==
    \A k \in 1..Len(data) :
        data[k].id \in DOMAIN cars /\ data[k].row = cars[data[k].id]

\* C26 as stated: after every operation of the window each row cached in the
\* dashboard model or in the search model equals the store's row of the same
\* id, and the dashboard model holds exactly the store's rows
C26_ModelsMatchStore ==
    /\ Current(model_data)
    /\ Current(search_data)
    /\ model_data = FetchAllCars(cars)

\* C27 as stated: every stored car's non-empty image_path, and the path of
\* every car_images row of an existing car, names a file that is present in
\* directory car_images
C27_PathsHaveFiles ==
    /\ \A i \in DOMAIN cars :
          Truthy(cars[i].image_path) => cars[i].image_path \in files
    /\ \A j \in DOMAIN car_images :
          car_images[j].car_id \in DOMAIN cars => car_images[j].path \in files

\* C29: in a session whose role is not admin no operation of the window
\* removes a car, and delete_selected_car leaves the store, the pictures and
\* the table as they are
C29_OnlyAdminDeletes ==
    [][current_role # "admin" =>
          /\ DOMAIN cars \subseteq DOMAIN cars'
          /\ (last'.op = "delete" =>
                /\ last'.result = "denied"
                /\ cars' = cars /\ car_images' = car_images /\ files' = files
                /\ model_data' = model_data)]_vars
C29_Witness ==
    /\ current_role = "salesperson"
    /\ last.op = "delete" /\ last.result = "denied"
    /\ \E i \in DOMAIN cars : Truthy(cars[i].image_path) /\ cars[i].image_path \in files
    /\ model_data # <<>>

\* C30 as stated: whatever the store holds, the average of the status bar
\* and the average of the analytics page are both defined, are equal, and
\* are the sum of the stored prices over the number of stored cars (0 for an
\* empty store)
C30_AveragesAgree ==
    last.op \in {"status", "analytics"} =>
        LET shown == StatusOf(FetchAllCars(cars))
            page == AnalyticsOf(cars)
        IN  /\ ~page.raised
            /\ shown.avg = page.avg
            /\ page.avg = StatedMean(FetchAllCars(cars))

====
